---------------------------- MODULE Spec2Model ----------------------------
(***************************************************************************)
(* A model of the rental-analysis service (main_v4.py): the CSV catalog,   *)
(* the on-demand loader, the week-over-week reconciliation, the geo filter *)
(* with its summary statistics, and the two text parsers (file names and   *)
(* degree-minute-second coordinates).                                      *)
(*                                                                         *)
(* Text.  TLC's strings are ASCII, the program's are not.  A Python str is *)
(* modelled as a sequence with one element per character; a CJK character  *)
(* is written as one ASCII token (its pinyin, with a suffix where two      *)
(* characters would collide), so that substring search, prefix tests and   *)
(* replacement work on characters exactly as in Python.                    *)
(*                                                                         *)
(* Numbers.  TLC's integers are 32-bit.  Angles are kept in units of       *)
(* 1/360000 degree (0.01 arc second), distances in whole metres, areas in  *)
(* tenths of a ping.                                                       *)
(***************************************************************************)
EXTENDS Integers, Sequences, FiniteSets, TLC

VARIABLES
    upload,          \* the upload directory: a sequence (listing order) of files
    csv_index,       \* table csv_index: a sequence of descriptors, in rowid order
    versions,        \* table versions: the set of registered week ids
    drive_available, \* the module global drive_available
    request,         \* the parameters of the last analysis_v4 call
    loaded,          \* analysis_v4: all_properties as load_csv_data returned it
    reconciled,      \* analysis_v4: all_properties as calculate_property_status returned it
    response,        \* analysis_v4: the response payload
    filename,        \* parse_csv_filename: its argument
    parts,           \* the components the file name was assembled from
    parsed,          \* parse_csv_filename: its result
    coord_str,       \* parse_dms_coordinate: its argument
    coord,           \* parse_dms_coordinate: its result
    drive,           \* the Google Drive folder: whether it answers, and its files
    rescans,         \* scans run in a row since the sources last changed (0, 1, 2)
    scan,            \* a scan_available_csv_files call in progress: its transaction
    snapshot,        \* what the last reader of csv_index got
    admin,           \* the response of the last /api/admin call
    date,            \* get_week_id: its argument
    week_token,      \* get_week_id: its result
    prior_loads,     \* calculate_property_status: the prior-week loads it made
    cache,           \* the directory csv_cache: the set of its entries
    fetches          \* the download_file_from_drive calls of the last scan

\* the state of the scan process and of the readers beside it
scanVars == <<drive, rescans, scan, snapshot, admin, cache, fetches>>

\* the state of the week-token runs
clockVars == <<date, week_token>>

vars == <<upload, csv_index, versions, drive_available, request, loaded,
          reconciled, response, filename, parts, parsed, coord_str, coord,
          scanVars, clockVars, prior_loads>>

(***************************************************************************)
(* Python str operations on character sequences                            *)
(***************************************************************************)

\* s[i:i+len(p)] == p
MatchesAt(p, s, i) ==
    /\ i + Len(p) - 1 <= Len(s)
    /\ \A k \in 1..Len(p) : s[i + k - 1] = p[k]

\* p in s
Contains(p, s) == \E i \in 1..(Len(s) + 1) : MatchesAt(p, s, i)

\* s.startswith(p)
StartsWith(s, p) == MatchesAt(p, s, 1)

\* s.endswith(p)
EndsWith(s, p) == Len(p) <= Len(s) /\ MatchesAt(p, s, Len(s) - Len(p) + 1)

\* s.replace(old, new): leftmost non-overlapping occurrences
RECURSIVE ReplaceFrom(_, _, _, _)
ReplaceFrom(s, old, new, i) ==
    IF i > Len(s) THEN << >>
    ELSE IF MatchesAt(old, s, i)
         THEN new \o ReplaceFrom(s, old, new, i + Len(old))
         ELSE << s[i] >> \o ReplaceFrom(s, old, new, i + 1)

\* s.replace('', new) puts new before every character and at the end
RECURSIVE Interleave(_, _)
Interleave(s, new) ==
    IF s = << >> THEN new ELSE new \o << Head(s) >> \o Interleave(Tail(s), new)

Replace(s, old, new) ==
    IF old = << >> THEN Interleave(s, new) ELSE ReplaceFrom(s, old, new, 1)

Digits == {"0", "1", "2", "3", "4", "5", "6", "7", "8", "9"}

IsDigit(c) == c \in Digits

DigitValue(c) ==
    CASE c = "0" -> 0 [] c = "1" -> 1 [] c = "2" -> 2 [] c = "3" -> 3
      [] c = "4" -> 4 [] c = "5" -> 5 [] c = "6" -> 6 [] c = "7" -> 7
      [] c = "8" -> 8 [] c = "9" -> 9

\* the concatenation of a sequence of strings
RECURSIVE Concat(_)
Concat(ss) == IF ss = << >> THEN << >> ELSE Head(ss) \o Concat(Tail(ss))

(***************************************************************************)
(* The vocabulary of file names                                            *)
(***************************************************************************)

Underscore == << "_" >>
DotCsv == << ".", "c", "s", "v" >>
MergedSuffix == << "_", "m", "e", "r", "g", "e", "d" >>
Qu == << "qu" >>                                     \* 區

XinBeiShi == << "xin", "bei", "shi" >>               \* 新北市
TaiBeiShiTrad == << "tai2t", "bei", "shi" >>         \* 臺北市
TaiBeiShiSimp == << "tai2", "bei", "shi" >>          \* 台北市
JiLongShi == << "ji", "long", "shi" >>               \* 基隆市
TaoYuanShi == << "tao2", "yuan", "shi" >>            \* 桃園市
GaoXiongShi == << "gao", "xiong", "shi" >>           \* 高雄市, not in the program's list

DianTiDaLou == << "dian4", "ti", "da", "lou" >>      \* 電梯大樓
DianTi == << "dian4", "ti" >>                        \* 電梯
GongYu == << "gong", "yu" >>                         \* 公寓
TaoFang == << "tao4", "fang" >>                      \* 套房
DuLiTaoFang == << "du", "li4", "tao4", "fang" >>     \* 獨立套房
ZhuJia == << "zhu", "jia" >>                         \* 住家
ZhengCengZhuJia == << "zheng3", "ceng", "zhu", "jia" >>  \* 整層住家
QuanBu == << "quan", "bu" >>                         \* 全部
Apartment == << "a", "p", "a", "r", "t", "m", "e", "n", "t" >>
Building == << "b", "u", "i", "l", "d", "i", "n", "g" >>

\* the keys of district_mapping without 區, in the order the dict lists them
DistrictShortNames ==
    << << "ban", "qiao" >>,   << "san", "chong" >>, << "zhong", "he" >>,
       << "yong", "he" >>,    << "xin", "zhuang" >>, << "xin", "dian" >>,
       << "tu", "cheng" >>,   << "lu", "zhou" >>,   << "shu", "lin" >>,
       << "xi", "zhi" >>,     << "ying", "ge" >>,   << "san", "xia" >>,
       << "dan", "shui" >>,   << "wu", "gu" >>,     << "tai4", "shan" >>,
       << "lin", "kou" >>,    << "ba", "li" >>,
       << "da", "an" >>,      << "xin4", "yi" >>,   << "zhong", "shan" >>,
       << "song", "shan" >>,  << "nan2", "gang" >>, << "nei", "hu" >>,
       << "bei", "tou" >>,    << "shi4s", "lin" >>, << "da", "tong" >>,
       << "zhong", "zheng" >>, << "wan", "hua" >>,  << "wen", "shan" >> >>

\* district_mapping: every key, short or with 區, maps to the name with 區
district_mapping(key) == IF EndsWith(key, Qu) THEN key ELSE key \o Qu

\* sorted(district_mapping.items(), key=len, reverse=True): the sort is
\* stable, so the three-character keys come first and each group keeps the
\* dict's order
DistrictKeysLongestFirst ==
    [i \in 1..Len(DistrictShortNames) |-> DistrictShortNames[i] \o Qu]
        \o DistrictShortNames

(***************************************************************************)
(* parse_csv_filename                                                      *)
(***************************************************************************)

\* re.search(r'_(\d{4})(?:_merged)?$', name): group 1, or '' without a match
WeekTokenAtEnd(name) ==
    LET n == Len(name) IN
    n >= 5 /\ name[n - 4] = "_" /\ \A k \in (n - 3)..n : IsDigit(name[k])

WeekMatch(name) ==
    IF WeekTokenAtEnd(name)
    THEN SubSeq(name, Len(name) - 3, Len(name))
    ELSE IF EndsWith(name, MergedSuffix)
              /\ WeekTokenAtEnd(SubSeq(name, 1, Len(name) - Len(MergedSuffix)))
         THEN SubSeq(name, Len(name) - Len(MergedSuffix) - 3,
                     Len(name) - Len(MergedSuffix))
         ELSE << >>

\* the first key of the sorted mapping that occurs in the file name
RECURSIVE FirstDistrictFrom(_, _)
FirstDistrictFrom(fname, i) ==
    IF i > Len(DistrictKeysLongestFirst) THEN << >>
    ELSE IF Contains(DistrictKeysLongestFirst[i], fname)
         THEN district_mapping(DistrictKeysLongestFirst[i])
         ELSE FirstDistrictFrom(fname, i + 1)

FilenameBuildingType(fname) ==
    IF Contains(DianTiDaLou, fname) \/ Contains(DianTi, fname) THEN Building
    ELSE IF Contains(GongYu, fname) THEN Apartment
    ELSE << >>

FilenameCategory(fname) ==
    IF Contains(TaoFang, fname) \/ Contains(DuLiTaoFang, fname) THEN TaoFang
    ELSE IF Contains(ZhuJia, fname) \/ Contains(ZhengCengZhuJia, fname) THEN ZhuJia
    ELSE << >>

\* FilenameCity with 台北市 kept as written
FilenameCityAsWritten(fname) ==
    IF StartsWith(fname, XinBeiShi) THEN XinBeiShi
    ELSE IF StartsWith(fname, TaiBeiShiTrad) THEN TaiBeiShiTrad
    ELSE IF StartsWith(fname, TaiBeiShiSimp) THEN TaiBeiShiSimp
    ELSE IF StartsWith(fname, JiLongShi) THEN JiLongShi
    ELSE IF StartsWith(fname, TaoYuanShi) THEN TaoYuanShi
    ELSE << >>

FilenameCity(fname) ==
    IF StartsWith(fname, XinBeiShi) THEN XinBeiShi
    ELSE IF StartsWith(fname, TaiBeiShiTrad) \/ StartsWith(fname, TaiBeiShiSimp)
         THEN TaiBeiShiTrad
    ELSE IF StartsWith(fname, JiLongShi) THEN JiLongShi
    ELSE IF StartsWith(fname, TaoYuanShi) THEN TaoYuanShi
    ELSE << >>

parse_csv_filename(fname) ==
    [ city              |-> FilenameCity(fname),
      district          |-> FirstDistrictFrom(fname, 1),
      building_type     |-> FilenameBuildingType(fname),
      property_category |-> FilenameCategory(fname),
      week_id           |-> WeekMatch(Replace(fname, DotCsv, << >>)) ]

(***************************************************************************)
(* parse_dms_coordinate                                                    *)
(*                                                                         *)
(* Coordinate text uses the characters "deg" (the degree sign), "'", the   *)
(* double quote, ".", the digits, the hemisphere letters and filler.       *)
(***************************************************************************)

Whitespace == {" "}
Hemispheres == {"N", "S", "E", "W"}

\* the end of the run of digits that starts at i (i - 1 when s[i] is no digit)
RECURSIVE DigitRunEnd(_, _)
DigitRunEnd(s, i) ==
    IF i <= Len(s) /\ IsDigit(s[i]) THEN DigitRunEnd(s, i + 1) ELSE i - 1

\* int(digits) for a run of decimal digits
RECURSIVE DecimalValue(_)
DecimalValue(ds) ==
    IF ds = << >> THEN 0
    ELSE 10 * DecimalValue(SubSeq(ds, 1, Len(ds) - 1)) + DigitValue(ds[Len(ds)])

\* float(sec) in hundredths, for the integer digits and the decimals of sec
SecondsValue(whole, frac) ==
    100 * DecimalValue(whole)
        + 10 * (IF Len(frac) >= 1 THEN DigitValue(frac[1]) ELSE 0)
        + (IF Len(frac) >= 2 THEN DigitValue(frac[2]) ELSE 0)

\* float(sec) in hundredths: the integer part and the first two decimals
SecondsHundredths(sec) ==
    SecondsValue(SubSeq(sec, 1, DigitRunEnd(sec, 1)),
                 SubSeq(sec, DigitRunEnd(sec, 1) + 2, Len(sec)))

NoMatch == [ok |-> FALSE, end |-> 0, deg |-> << >>, min |-> << >>,
            sec |-> << >>, dir |-> ""]

\* the end of \d+(?:\.\d+)? whose integer digits end at secInt
SecondsEnd(s, secInt) ==
    IF /\ secInt + 1 <= Len(s) /\ s[secInt + 1] = "."
       /\ DigitRunEnd(s, secInt + 2) >= secInt + 2
    THEN DigitRunEnd(s, secInt + 2)
    ELSE secInt

\* ..."([NSEW]) after the seconds, which end at secEnd
DmsMatchClose(s, i, degEnd, minEnd, secEnd) ==
    IF secEnd + 2 <= Len(s) /\ s[secEnd + 1] = "\"" /\ s[secEnd + 2] \in Hemispheres
    THEN [ok |-> TRUE, end |-> secEnd + 2,
          deg |-> SubSeq(s, i, degEnd),
          min |-> SubSeq(s, degEnd + 2, minEnd),
          sec |-> SubSeq(s, minEnd + 2, secEnd),
          dir |-> s[secEnd + 2]]
    ELSE NoMatch

\* ...'(\d+(?:\.\d+)?) after the minutes, which end at minEnd
DmsMatchSeconds(s, i, degEnd, minEnd) ==
    IF /\ minEnd >= degEnd + 2
       /\ minEnd + 1 <= Len(s) /\ s[minEnd + 1] = "'"
       /\ DigitRunEnd(s, minEnd + 2) >= minEnd + 2
    THEN DmsMatchClose(s, i, degEnd, minEnd,
                       SecondsEnd(s, DigitRunEnd(s, minEnd + 2)))
    ELSE NoMatch

\* ...deg(\d+) after the degrees, which end at degEnd
DmsMatchMinutes(s, i, degEnd) ==
    IF degEnd >= i /\ degEnd + 1 <= Len(s) /\ s[degEnd + 1] = "deg"
    THEN DmsMatchSeconds(s, i, degEnd, DigitRunEnd(s, degEnd + 2))
    ELSE NoMatch

\* one match of (\d+)deg(\d+)'(\d+(?:\.\d+)?)"([NSEW]) anchored at i.  Every
\* quantifier is greedy and is followed by a character no digit run can
\* hold, so backtracking never finds a match the greedy pass misses.
DmsMatchAt(s, i) == DmsMatchMinutes(s, i, DigitRunEnd(s, i))

\* re.findall(pattern, s): the non-overlapping matches, left to right
RECURSIVE DmsFindAll(_, _)
RECURSIVE DmsFindNext(_, _, _)
DmsFindNext(s, i, m) ==
    IF m.ok THEN << m >> \o DmsFindAll(s, m.end + 1) ELSE DmsFindAll(s, i + 1)

DmsFindAll(s, i) ==
    IF i > Len(s) THEN << >> ELSE DmsFindNext(s, i, DmsMatchAt(s, i))

\* str.strip()
RECURSIVE LStrip(_)
LStrip(s) == IF s # << >> /\ Head(s) \in Whitespace THEN LStrip(Tail(s)) ELSE s

RECURSIVE RStrip(_)
RStrip(s) ==
    IF s # << >> /\ s[Len(s)] \in Whitespace
    THEN RStrip(SubSeq(s, 1, Len(s) - 1)) ELSE s

Strip(s) == LStrip(RStrip(s))

\* the for loop of lines 482-487: the last match of each axis, or NoMatch
RECURSIVE LastMatchIn(_, _)
LastMatchIn(matches, dirs) ==
    IF matches = << >> THEN NoMatch
    ELSE IF matches[Len(matches)].dir \in dirs THEN matches[Len(matches)]
    ELSE LastMatchIn(SubSeq(matches, 1, Len(matches) - 1), dirs)

\* float(deg) + float(min)/60 + float(sec)/3600, in units of 1/360000 degree
DmsAngle(m) ==
    360000 * DecimalValue(m.deg) + 6000 * DecimalValue(m.min)
        + SecondsHundredths(m.sec)

\* BothAxesFound with one axis enough
EitherAxisFound(lat_match, lng_match) == lat_match.ok \/ lng_match.ok

\* line 489: both a latitude and a longitude component were found
BothAxesFound(lat_match, lng_match) == lat_match.ok /\ lng_match.ok

NaNText == << "n", "a", "n" >>

ZeroCoordinate == [lat |-> 0, lng |-> 0]

\* lines 490-500: the signed decimal pair of the two matches
DmsPair(lat_match, lng_match) ==
    [lat |-> IF lat_match.dir = "S" THEN -DmsAngle(lat_match)
             ELSE DmsAngle(lat_match),
     lng |-> IF lng_match.dir = "W" THEN -DmsAngle(lng_match)
             ELSE DmsAngle(lng_match)]

\* lines 478-500 for the matches found
DmsResult(matches, lat_match, lng_match) ==
    IF Len(matches) >= 2 /\ BothAxesFound(lat_match, lng_match)
    THEN DmsPair(lat_match, lng_match)
    ELSE ZeroCoordinate

DmsSelect(matches) ==
    DmsResult(matches, LastMatchIn(matches, {"N", "S"}),
              LastMatchIn(matches, {"E", "W"}))

parse_dms_coordinate(raw) ==
    IF raw = << >> \/ raw = NaNText THEN ZeroCoordinate
    ELSE DmsSelect(DmsFindAll(Strip(raw), 1))

(***************************************************************************)
(* CSV cells, rows and files                                               *)
(*                                                                         *)
(* A cell of a DataFrame row is a number, text, or NaN (an empty CSV       *)
(* field).  A file has the columns 案件編號, 地址, 租金, 坪數, 房型, 緯度,  *)
(* 經度 and 座標; the pass-through columns 標題 and 樓層 and the optional   *)
(* columns 週次/年週/坡數 are left out.  Coordinates are in units of        *)
(* 1/360000 degree, areas in tenths.                                       *)
(***************************************************************************)

NaN == [k |-> "nan", n |-> 0, s |-> << >>]
Num(n) == [k |-> "num", n |-> n, s |-> << >>]
Str(s) == [k |-> "str", n |-> 0, s |-> s]

\* pd.isna(cell)
IsNa(cell) == cell.k = "nan"

\* not cell: zero, or the empty string
IsFalsy(cell) ==
    \/ cell.k = "num" /\ cell.n = 0
    \/ cell.k = "str" /\ cell.s = << >>

DigitChars == << "0", "1", "2", "3", "4", "5", "6", "7", "8", "9" >>

\* str(n) for an int
RECURSIVE IntToStr(_)
IntToStr(n) ==
    IF n < 0 THEN << "-" >> \o IntToStr(-n)
    ELSE IF n < 10 THEN << DigitChars[n + 1] >>
    ELSE IntToStr(n \div 10) \o << DigitChars[(n % 10) + 1] >>

\* str(cell)
CellText(cell) ==
    IF cell.k = "nan" THEN NaNText
    ELSE IF cell.k = "num" THEN IntToStr(cell.n)
    ELSE cell.s

\* int(cell) and float(cell) succeed on a number; on text they raise ValueError
IsNumeric(cell) == cell.k = "num"

(***************************************************************************)
(* process_dataframe                                                       *)
(***************************************************************************)

Unknown == << "u", "n", "k", "n", "o", "w", "n" >>

\* a record before analysis_v4 measures it: no distance key
NoDistance == [metres |-> -1, whole |-> TRUE]

\* A date is [year, yday]: the calendar year and the day of the year, 1 for
\* 1 January.
IsLeap(year) == (year % 4 = 0 /\ year % 100 # 0) \/ year % 400 = 0

DaysInYear(year) == IF IsLeap(year) THEN 366 ELSE 365

\* date.toordinal() of 31 December of the year before
DaysBeforeYear(year) ==
    365 * (year - 1) + ((year - 1) \div 4) - ((year - 1) \div 100)
        + ((year - 1) \div 400)

\* date.isoweekday(): 1 for Monday (ordinal 1 is a Monday)
IsoWeekday(d) == ((DaysBeforeYear(d.year) + d.yday - 1) % 7) + 1

\* the ISO weeks of a year: 53 when 1 January is a Thursday, or a Wednesday
\* in a leap year
IsoWeeksIn(year) ==
    IF IsoWeekday([year |-> year, yday |-> 1]) = 4
           \/ (IsLeap(year) /\ IsoWeekday([year |-> year, yday |-> 1]) = 3)
    THEN 53 ELSE 52

\* the week a raw week number stands for: week 0 is the last week of the
\* year before, a week past the year's last is week 1 of the next year
IsoWeekFrom(year, week) ==
    IF week < 1 THEN IsoWeeksIn(year - 1)
    ELSE IF week > IsoWeeksIn(year) THEN 1
    ELSE week

\* line 443: date.isocalendar()[1]
IsoWeek(d) == IsoWeekFrom(d.year, (d.yday - IsoWeekday(d) + 10) \div 7)

\* f"{n:02d}"
Pad2(n) == IF n < 10 THEN << "0" >> \o IntToStr(n) ELSE IntToStr(n)

\* lines 442-444: the token of a date: the calendar year's last two digits,
\* then the ISO week
WeekToken(d) == Pad2(d.year % 100) \o Pad2(IsoWeek(d))

\* datetime.now() is 28 January 2026 where the service computes a week itself
Now == [year |-> 2026, yday |-> 28]

\* get_week_id() without a date: the token of datetime.now(), 2605
get_week_id == WeekToken(Now)

\* lines 933-935: the district inserted after the city
InsertDistrict(address, city, district) ==
    IF district # << >> /\ ~Contains(district, address)
    THEN Replace(address, city, city \o district)
    ELSE address

\* lines 930-935: the address with the city put in front and the district
\* inserted after the city
EnrichAddress(raw, city, district) ==
    InsertDistrict(IF city # << >> /\ ~StartsWith(raw, city) THEN city \o raw
                   ELSE raw,
                   city, district)

\* lines 962-966: the decimal columns when both are present
DecimalCoordinate(row) ==
    IF ~IsNa(row.lat) /\ ~IsNa(row.lng)
    THEN [lat |-> row.lat.n, lng |-> row.lng.n]
    ELSE ZeroCoordinate

\* lines 968-971: the DMS text when the decimal pair is (0, 0)
CoordinateOr(decimal, row) ==
    IF decimal.lat = 0 /\ decimal.lng = 0 /\ ~IsNa(row.coord)
    THEN parse_dms_coordinate(CellText(row.coord))
    ELSE decimal

\* lines 958-971
RowCoordinate(row) == CoordinateOr(DecimalCoordinate(row), row)

\* a row raises where int() or float() meets text (lines 940, 945, 965-966)
RowRaises(row) ==
    /\ ~(IsNa(row.pid) \/ IsFalsy(row.pid))
    /\ \/ ~IsNa(row.rent) /\ ~IsNumeric(row.rent)
       \/ ~IsNa(row.area) /\ ~IsNumeric(row.area)
       \/ /\ ~IsNa(row.lat) /\ ~IsNa(row.lng)
          /\ ~IsNumeric(row.lat) \/ ~IsNumeric(row.lng)

\* lines 923-925 and 980-981: the rows that emit no record
RowRejected(row, address, rent) ==
    \/ IsNa(row.pid) \/ IsFalsy(row.pid)
    \/ address = << >>
    \/ rent <= 0

\* the record of one row (lines 983-997) at coordinate c; the keys
\* calculate_property_status and analysis_v4 add later are carried from the
\* start, unset: -1, or ''
RecordAt(row, c, city, district, building_type, property_category, week_id) ==
    [ property_id       |-> IF row.pid.k = "num" THEN IntToStr(row.pid.n)
                            ELSE row.pid.s,
      address           |-> EnrichAddress(CellText(row.address), city, district),
      rent_monthly      |-> IF IsNa(row.rent) THEN 0 ELSE row.rent.n,
      area              |-> IF IsNa(row.area) THEN 0 ELSE row.area.n,
      room_type         |-> IF CellText(row.room_type) = NaNText THEN << >>
                            ELSE CellText(row.room_type),
      latitude          |-> c.lat,
      longitude         |-> c.lng,
      building_type     |-> IF building_type = << >> THEN Unknown
                            ELSE building_type,
      property_category |-> property_category,
      upload_week       |-> IF week_id = << >> THEN get_week_id ELSE week_id,
      status            |-> "active",
      weeks_active      |-> -1,
      first_seen_week   |-> << >>,
      disappeared_week  |-> << >>,
      distance          |-> NoDistance ]

RowRecord(row, city, district, building_type, property_category, week_id) ==
    RecordAt(row, RowCoordinate(row), city, district, building_type,
             property_category, week_id)

\* one turn of the loop: the row's record in front of the later rows' records
EmitRow(row, rec, rest) ==
    IF rest.raised THEN rest
    ELSE IF RowRejected(row, rec.address, rec.rent_monthly) THEN rest
    ELSE [raised |-> FALSE, properties |-> << rec >> \o rest.properties]

\* the loop of process_dataframe over rows i..Len(rows): the records, and
\* whether a row raised (the exception leaves the function; no list returns)
RECURSIVE ProcessRowsFrom(_, _, _, _, _, _, _)
ProcessRowsFrom(rows, i, city, district, building_type, property_category, week_id) ==
    IF i > Len(rows) THEN [raised |-> FALSE, properties |-> << >>]
    ELSE IF RowRaises(rows[i]) THEN [raised |-> TRUE, properties |-> << >>]
    ELSE EmitRow(rows[i],
                 RowRecord(rows[i], city, district, building_type,
                           property_category, week_id),
                 ProcessRowsFrom(rows, i + 1, city, district, building_type,
                                 property_category, week_id))

process_dataframe(df, city, district, building_type, property_category, week_id) ==
    ProcessRowsFrom(df, 1, city, district, building_type, property_category, week_id)

(***************************************************************************)
(* The catalog: scan_available_csv_files and get_all_week_ids              *)
(*                                                                         *)
(* A file of the upload directory is [name, rows, blank_lines]: its data   *)
(* rows, and the number of blank lines its text holds beside them          *)
(* (pd.read_csv skips blank lines, a line count does not).  The directory  *)
(* is the sequence os.listdir returns.  A file of the Google Drive folder  *)
(* is [id, path, name, rows, blank_lines, readable]: path is the sequence  *)
(* of folder names above it, readable is whether pd.read_csv accepts its   *)
(* bytes.                                                                  *)
(***************************************************************************)

\* the Drive folder when it holds nothing
NoDrive == [online |-> FALSE, files |-> << >>]

\* no scan in progress
NoScan ==
    [ running |-> FALSE, step |-> 0, before |-> << >>, listed |-> << >>,
      work |-> [index |-> << >>, dir |-> << >>, week_ids |-> {},
                cache |-> {}, fetches |-> << >>] ]

\* no reader served yet
NoSnapshot ==
    [ taken |-> FALSE, during |-> FALSE, reader |-> "none", district |-> << >>,
      filenames |-> << >>, week_ids |-> << >> ]

\* no /api/admin call answered yet
NoAdmin == [message |-> "none", indexed_files |-> 0]

\* lines 609 and 675: sum(1 for _ in open(path)) - 1: the lines of the file
\* after the header line, the blank ones among them
LineCount(file) == Len(file.rows) + file.blank_lines

\* lines 605-618: the csv_index row of a local file whose name parses to info
DescriptorOf(file, info) ==
    [ filename          |-> file.name,
      city              |-> info.city,
      district          |-> info.district,
      building_type     |-> info.building_type,
      property_category |-> info.property_category,
      week_id           |-> info.week_id,
      record_count      |-> LineCount(file),
      source            |-> "local",
      file_id           |-> << >> ]

LocalDescriptor(file) == DescriptorOf(file, parse_csv_filename(file.name))

\* lines 593-627: the index after DELETE FROM csv_index and the local pass
RECURSIVE ScanLocalFrom(_, _)
ScanLocalFrom(dir, i) ==
    IF i > Len(dir) THEN << >>
    ELSE IF EndsWith(dir[i].name, DotCsv)
         THEN << LocalDescriptor(dir[i]) >> \o ScanLocalFrom(dir, i + 1)
         ELSE ScanLocalFrom(dir, i + 1)

ScanIndex(dir) == ScanLocalFrom(dir, 1)

\* SELECT DISTINCT week_id over the rows of an index, the empty one left out
WeekIdsOf(index) == {index[i].week_id : i \in 1..Len(index)} \ {<< >>}

\* lines 309-347: the .csv files under the Drive folder, in listing order;
\* a failed request is caught and lists nothing
list_google_drive_files ==
    IF drive_available /\ drive.online
    THEN SelectSeq(drive.files, LAMBDA f : EndsWith(f.name, DotCsv))
    ELSE << >>

\* no DataFrame
NoFrame == [found |-> FALSE, rows |-> << >>, blank_lines |-> 0]

\* the DataFrame of the first of the listed files, None when unreadable
FrameOf(files) ==
    IF files = << >> THEN NoFrame
    ELSE IF ~files[1].readable THEN NoFrame
    ELSE [found |-> TRUE, rows |-> files[1].rows,
          blank_lines |-> files[1].blank_lines]

\* line 45: CACHE_EXPIRY_HOURS
CacheExpiryHours == 24

\* no file at the cache path
NoEntry == [present |-> FALSE, age |-> 0, rows |-> << >>, blank_lines |-> 0,
            readable |-> FALSE]

\* lines 47-49 and 52: the file at get_cache_path(file_id), if there is one.
\* An entry is [file_id, age, rows, blank_lines, readable]: age is the hours
\* since its mtime, readable whether pd.read_csv accepts its bytes
EntryOf(c, file_id) ==
    IF \E e \in c : e.file_id = file_id
    THEN [present     |-> TRUE,
          age         |-> (CHOOSE e \in c : e.file_id = file_id).age,
          rows        |-> (CHOOSE e \in c : e.file_id = file_id).rows,
          blank_lines |-> (CHOOSE e \in c : e.file_id = file_id).blank_lines,
          readable    |-> (CHOOSE e \in c : e.file_id = file_id).readable]
    ELSE NoEntry

\* lines 51-59, as a mutation would have them: an entry of exactly the
\* expiry age counts as valid
IsCacheValidAtExpiry(entry) ==
    entry.present /\ entry.age <= CacheExpiryHours

\* lines 51-59: the entry exists and its age is under CACHE_EXPIRY_HOURS
is_cache_valid(entry) ==
    entry.present /\ entry.age < CacheExpiryHours

\* lines 190-198: what files().get_media answers for the id: the bytes of
\* the file, or nothing when the request raises
RemoteBytes(file_id) ==
    IF drive.online /\ \E i \in 1..Len(drive.files) : drive.files[i].id = file_id
    THEN [present     |-> TRUE,
          age         |-> 0,
          rows        |-> FrameOf(SelectSeq(drive.files,
                                  LAMBDA f : f.id = file_id)).rows,
          blank_lines |-> FrameOf(SelectSeq(drive.files,
                                  LAMBDA f : f.id = file_id)).blank_lines,
          readable    |-> FrameOf(SelectSeq(drive.files,
                                  LAMBDA f : f.id = file_id)).found]
    ELSE NoEntry

\* lines 201-203: the bytes are written to the cache path
PutEntry(c, file_id, bytes) ==
    {e \in c : e.file_id # file_id}
        \cup {[file_id |-> file_id, age |-> 0, rows |-> bytes.rows,
                blank_lines |-> bytes.blank_lines,
                readable |-> bytes.readable]}

\* lines 177-186: the DataFrame read from the cache entry
ServedFromCache(c, file_id, entry) ==
    [ found |-> TRUE, rows |-> entry.rows, blank_lines |-> entry.blank_lines,
      cache |-> c,
      fetch |-> [file_id |-> file_id, before |-> entry, remote |-> FALSE,
                 bytes |-> NoEntry, after |-> entry, found |-> TRUE,
                 rows |-> entry.rows] ]

\* lines 188-213: the file is requested from the Drive, its bytes are
\* written to the cache path and read from there; None when the request or
\* the read raises
ServedFromDrive(c, file_id, entry, bytes) ==
    [ found |-> bytes.present /\ bytes.readable,
      rows |-> IF bytes.present /\ bytes.readable THEN bytes.rows ELSE << >>,
      blank_lines |-> IF bytes.present /\ bytes.readable
                      THEN bytes.blank_lines ELSE 0,
      cache |-> IF bytes.present THEN PutEntry(c, file_id, bytes) ELSE c,
      fetch |-> [file_id |-> file_id, before |-> entry, remote |-> TRUE,
                 bytes |-> bytes,
                 after |-> IF bytes.present THEN bytes ELSE entry,
                 found |-> bytes.present /\ bytes.readable,
                 rows |-> IF bytes.present /\ bytes.readable THEN bytes.rows
                          ELSE << >>] ]

\* lines 169-171: without the Drive service nothing is looked at
NotServed(c, file_id) ==
    [ found |-> FALSE, rows |-> << >>, blank_lines |-> 0, cache |-> c,
      fetch |-> [file_id |-> file_id, before |-> EntryOf(c, file_id),
                 remote |-> FALSE, bytes |-> NoEntry,
                 after |-> EntryOf(c, file_id), found |-> FALSE,
                 rows |-> << >>] ]

\* lines 167-213: download_file_from_drive over the cache c: the DataFrame,
\* the cache afterwards and what the call did
FetchFrom(c, file_id) ==
    IF ~drive_available THEN NotServed(c, file_id)
    ELSE IF is_cache_valid(EntryOf(c, file_id))
              /\ EntryOf(c, file_id).readable
         THEN ServedFromCache(c, file_id, EntryOf(c, file_id))
         ELSE ServedFromDrive(c, file_id, EntryOf(c, file_id),
                              RemoteBytes(file_id))

\* lines 167-213: the DataFrame of a Drive file, None when neither the cache
\* nor the Drive gives one
download_file_from_drive(file_id) == FetchFrom(cache, file_id)

\* lines 650-666: the city and district of the path, when the path has them,
\* over those of the file name
WithPath(info, path) ==
    [ info EXCEPT !.city = IF Len(path) >= 1 /\ path[1] # << >> THEN path[1]
                           ELSE @,
                  !.district = IF Len(path) >= 2 /\ path[2] # << >> THEN path[2]
                               ELSE @ ]

\* lines 702-707, as a mutation would have them: the row of a Drive file
\* keeps the origin of the file
DriveDescriptorRemote(f, info, record_count) ==
    [ filename          |-> f.name,
      city              |-> info.city,
      district          |-> info.district,
      building_type     |-> info.building_type,
      property_category |-> info.property_category,
      week_id           |-> info.week_id,
      record_count      |-> record_count,
      source            |-> "google_drive",
      file_id           |-> f.id ]

\* lines 702-707: the csv_index row of a Drive file
DriveDescriptor(f, info, record_count) ==
    [ filename          |-> f.name,
      city              |-> info.city,
      district          |-> info.district,
      building_type     |-> info.building_type,
      property_category |-> info.property_category,
      week_id           |-> info.week_id,
      record_count      |-> record_count,
      source            |-> "local",
      file_id           |-> f.id ]

\* INSERT OR REPLACE on the UNIQUE filename: the row of that name goes, the
\* new row comes last
Upsert(index, d) ==
    SelectSeq(index, LAMBDA e : e.filename # d.filename) \o << d >>

\* lines 672-678: the file is in the upload directory already
SyncExisting(st, f, local) ==
    [ index    |-> Upsert(st.index,
                          DriveDescriptor(f, WithPath(parse_csv_filename(f.name),
                                                      f.path),
                                          LineCount(local))),
      dir      |-> st.dir,
      week_ids |-> st.week_ids
                       \cup ({parse_csv_filename(f.name).week_id} \ {<< >>}),
      cache    |-> st.cache,
      fetches  |-> st.fetches ]

\* lines 680-699: the file is downloaded into the upload directory, and
\* counted by len(df); without a DataFrame nothing is written and the count
\* is 0
SyncDownload(st, f, df) ==
    [ index    |-> Upsert(st.index,
                          DriveDescriptor(f, WithPath(parse_csv_filename(f.name),
                                                      f.path),
                                          IF df.found THEN Len(df.rows) ELSE 0)),
      dir      |-> IF df.found
                   THEN st.dir \o << [name |-> f.name, rows |-> df.rows,
                                       blank_lines |-> df.blank_lines] >>
                   ELSE st.dir,
      week_ids |-> st.week_ids
                       \cup ({parse_csv_filename(f.name).week_id} \ {<< >>}),
      cache    |-> df.cache,
      fetches  |-> Append(st.fetches, df.fetch) ]

\* lines 642-712: one Drive file
SyncFile(st, f, locals) ==
    IF locals # << >> THEN SyncExisting(st, f, locals[1])
    ELSE SyncDownload(st, f, FetchFrom(st.cache, f.id))

\* lines 642-717: the Drive files from the i-th on
RECURSIVE SyncFrom(_, _, _)
SyncFrom(st, files, i) ==
    IF i > Len(files) THEN st
    ELSE SyncFrom(SyncFile(st, files[i],
                           SelectSeq(st.dir, LAMBDA l : l.name = files[i].name)),
                  files, i + 1)

\* lines 593-725: the index, the upload directory and the week ids after
\* the local pass and the Drive pass over the directory dir
ScanResult(dir) ==
    SyncFrom([index |-> ScanIndex(dir), dir |-> dir,
              week_ids |-> WeekIdsOf(ScanIndex(dir)), cache |-> cache,
              fetches |-> << >>],
             list_google_drive_files, 1)

\* lines 727-732, as a mutation would have them: the versions table replaced
RegisterOnly(registered, week_ids) == week_ids

\* lines 727-732: INSERT OR REPLACE INTO versions for every week id scanned
RegisterVersions(registered, week_ids) == registered \cup week_ids

\* scans in a row over unchanged sources, counted up to 2
ScansInARow(n) == IF n >= 2 THEN 2 ELSE n + 1

\* lines 585-737: a scan from start to finish, into a versions table that
\* holds the weeks registered
ScanFrom(registered, result) ==
    /\ csv_index' = result.index
    /\ upload' = result.dir
    /\ versions' = RegisterVersions(registered, result.week_ids)
    /\ rescans' = ScansInARow(rescans)
    /\ cache' = result.cache
    /\ fetches' = result.fetches

scan_available_csv_files == ScanFrom(versions, ScanResult(upload))

\* lines 620-621 and 727-732: the week ids the scan registers as versions
ScanWeekIds(dir) == WeekIdsOf(ScanIndex(dir))

\* the largest token of a set of four-digit tokens
MaxWeek(ws) == CHOOSE w \in ws : \A v \in ws : DecimalValue(v) <= DecimalValue(w)

\* ORDER BY week_id DESC on four-digit tokens: text order is numeric order
RECURSIVE SortWeeksDesc(_)
RECURSIVE SortWeeksFrom(_, _)
SortWeeksFrom(ws, top) == << top >> \o SortWeeksDesc(ws \ {top})

SortWeeksDesc(ws) == IF ws = {} THEN << >> ELSE SortWeeksFrom(ws, MaxWeek(ws))

get_all_week_ids == SortWeeksDesc(WeekIdsOf(csv_index))

(***************************************************************************)
(* load_csv_data and get_csv_from_drive                                    *)
(***************************************************************************)

\* lines 756 and 240-244: the building type as the index stores it
BuildingTypeInDb(building_type) ==
    IF building_type = GongYu THEN Apartment
    ELSE IF building_type = DianTiDaLou THEN Building
    ELSE building_type

\* lines 748-766: the WHERE clause of the local lookup
MatchesLocalQuery(d, district, building_type, property_category, week_id) ==
    /\ district # << >> => d.district = district
    /\ (building_type # << >> /\ building_type # QuanBu)
           => d.building_type = BuildingTypeInDb(building_type)
    /\ (property_category # << >> /\ property_category # QuanBu)
           => d.property_category = property_category
    /\ week_id # << >> => d.week_id = week_id

normalize_city_name(city) ==
    IF city = << >> THEN {}
    ELSE IF city \in {TaiBeiShiSimp, TaiBeiShiTrad}
         THEN {TaiBeiShiSimp, TaiBeiShiTrad}
         ELSE {city}

AllText == << "a", "l", "l" >>

\* lines 249-274: the WHERE clause of the Drive lookup
MatchesDriveQuery(d, city, district, building_type, property_category, week_id) ==
    /\ normalize_city_name(city) # {} => d.city \in normalize_city_name(city)
    /\ d.district = district
    /\ d.week_id = week_id
    /\ d.source = "google_drive"
    /\ d.file_id # << >>
    /\ (BuildingTypeInDb(building_type) # << >>
            /\ BuildingTypeInDb(building_type) \notin {AllText, QuanBu})
           => d.building_type = BuildingTypeInDb(building_type)
    /\ (property_category # << >> /\ property_category \notin {AllText, QuanBu})
           => d.property_category = property_category

\* lines 290-294 and 300: the downloads that gave a DataFrame, concatenated
RECURSIVE ConcatDownloads(_)
ConcatDownloads(ds) ==
    IF ds = << >> THEN << >>
    ELSE (IF download_file_from_drive(Head(ds).file_id).found
          THEN download_file_from_drive(Head(ds).file_id).rows
          ELSE << >>) \o ConcatDownloads(Tail(ds))

\* lines 286-298 and 300: None without a match or without a download
CombineDownloads(results) ==
    IF \E i \in 1..Len(results) :
           download_file_from_drive(results[i].file_id).found
    THEN [found |-> TRUE, rows |-> ConcatDownloads(results)]
    ELSE [found |-> FALSE, rows |-> << >>]

get_csv_from_drive(city, district, building_type, property_category, week_id) ==
    IF ~drive_available THEN [found |-> FALSE, rows |-> << >>]
    ELSE CombineDownloads(SelectSeq(csv_index, LAMBDA d :
             MatchesDriveQuery(d, city, district, building_type,
                               property_category, week_id)))

\* the files of the upload directory of a given name
FilesNamed(csv_filename) == SelectSeq(upload, LAMBDA f : f.name = csv_filename)

\* pd.read_csv(os.path.join(upload_dir, csv_filename)): the rows, or an error
\* when the directory holds no such file
ReadCsv(csv_filename) ==
    IF FilesNamed(csv_filename) = << >> THEN [raised |-> TRUE, rows |-> << >>]
    ELSE [raised |-> FALSE, rows |-> FilesNamed(csv_filename)[1].rows]

\* lines 811-812: a failure is caught and the file contributes nothing
CaughtPerFile(out) == IF out.raised THEN << >> ELSE out.properties

\* lines 796-809: the records of a read file whose name parses to file_info
ProcessLocalFile(df, file_info) ==
    IF df.raised THEN << >>
    ELSE CaughtPerFile(process_dataframe(df.rows, file_info.city,
             file_info.district, file_info.building_type,
             file_info.property_category, file_info.week_id))

\* lines 791-812: one matched file's records
LoadLocalFile(csv_filename) ==
    ProcessLocalFile(ReadCsv(csv_filename), parse_csv_filename(csv_filename))

\* the loop of lines 790-811 left at the first file that cannot be read
RECURSIVE LoadLocalFilesUntilFailure(_)
LoadLocalFilesUntilFailure(ds) ==
    IF ds = << >> THEN << >>
    ELSE IF ReadCsv(Head(ds).filename).raised THEN << >>
    ELSE LoadLocalFile(Head(ds).filename) \o LoadLocalFilesUntilFailure(Tail(ds))

\* lines 790-811: the loop over the matched files, each in its own try
RECURSIVE LoadLocalFiles(_)
LoadLocalFiles(ds) ==
    IF ds = << >> THEN << >>
    ELSE LoadLocalFile(Head(ds).filename) \o LoadLocalFiles(Tail(ds))

\* lines 783-787: the records of the combined Drive DataFrame
ProcessDriveFrame(df, city, district, building_type, property_category, week_id) ==
    IF df.found
    THEN process_dataframe(df.rows, city, district,
             IF building_type = << >> THEN QuanBu ELSE building_type,
             IF property_category = << >> THEN QuanBu ELSE property_category,
             week_id).properties
    ELSE << >>

\* lines 777-787: the records the Drive path contributes
LoadFromDrive(city, district, building_type, property_category, week_id) ==
    IF drive_available /\ district # << >> /\ week_id # << >>
    THEN ProcessDriveFrame(get_csv_from_drive(city, district, building_type,
                                              property_category, week_id),
                           city, district, building_type, property_category,
                           week_id)
    ELSE << >>

\* lines 789-812: the local path, taken when the Drive path gave no record
LocalUnless(from_drive, csv_files) ==
    IF from_drive # << >> THEN from_drive ELSE LoadLocalFiles(csv_files)

load_csv_data(city, district, building_type, property_category, week_id) ==
    LocalUnless(LoadFromDrive(city, district, building_type, property_category,
                              week_id),
                SelectSeq(csv_index, LAMBDA d :
                    MatchesLocalQuery(d, district, building_type,
                                      property_category, week_id)))

(***************************************************************************)
(* calculate_property_status                                               *)
(***************************************************************************)

LookbackWeeks == 10

\* set(p['property_id'] for p in properties if p.get('property_id'))
PropertyIds(properties) ==
    {properties[i].property_id : i \in 1..Len(properties)} \ {<< >>}

load_property_ids_for_week(city, district, building_type, property_category, week_id) ==
    PropertyIds(load_csv_data(city, district, building_type, property_category,
                              week_id))

\* all_weeks.index(current_week_id)
RECURSIVE IndexOf(_, _, _)
IndexOf(seq, x, i) ==
    IF i > Len(seq) THEN 0
    ELSE IF seq[i] = x THEN i ELSE IndexOf(seq, x, i + 1)

\* the smaller of two integers
Min(a, b) == IF a < b THEN a ELSE b

\* all_weeks[idx:] for the 0-based idx = current_week_index + 1
SliceToEnd(all_weeks, idx) == SubSeq(all_weeks, idx + 1, Len(all_weeks))

\* all_weeks[idx:idx + 10] for the 0-based idx = current_week_index + 1
SliceAfter(all_weeks, idx) ==
    SubSeq(all_weeks, idx + 1, Min(idx + LookbackWeeks, Len(all_weeks)))

\* HistoryWeeks with the slice starting at the current week
HistoryWeeksFromCurrent(all_weeks, current_week_id) ==
    SliceAfter(all_weeks, IndexOf(all_weeks, current_week_id, 1) - 1)

\* all_weeks[current_week_index + 1:current_week_index + 11]
HistoryWeeks(all_weeks, current_week_id) ==
    SliceAfter(all_weeks, IndexOf(all_weeks, current_week_id, 1))

\* lines 846-849 and 889-891
TagNew(prop, current_week_id) ==
    [prop EXCEPT !.status = "new", !.weeks_active = 1,
                 !.first_seen_week = current_week_id]

\* TagActive without the current week in the count
TagActiveHistoryOnly(prop, weeks_seen, first_seen_week) ==
    [prop EXCEPT !.status = "active", !.weeks_active = weeks_seen,
                 !.first_seen_week = first_seen_week]

\* lines 894-896
TagActive(prop, weeks_seen, first_seen_week) ==
    [prop EXCEPT !.status = "active", !.weeks_active = weeks_seen + 1,
                 !.first_seen_week = first_seen_week]

\* lines 911-913
TagInactive(prop, current_week_id) ==
    [prop EXCEPT !.status = "inactive", !.weeks_active = 0,
                 !.disappeared_week = current_week_id]

\* the positions of the first occurrence of each property_id
FirstPositions(properties) ==
    SelectSeq([i \in 1..Len(properties) |-> i], LAMBDA i :
        /\ properties[i].property_id # << >>
        /\ \A j \in 1..(i - 1) :
               properties[j].property_id # properties[i].property_id)

\* the position of the last occurrence of the property_id found at i
LastPosition(properties, i) ==
    CHOOSE j \in i..Len(properties) :
        /\ properties[j].property_id = properties[i].property_id
        /\ \A k \in (j + 1)..Len(properties) :
               properties[k].property_id # properties[i].property_id

\* the values of a dict whose keys stand at the positions firsts
DictValuesAt(properties, firsts) ==
    [k \in 1..Len(firsts) |-> properties[LastPosition(properties, firsts[k])]]

\* {p['property_id']: p for p in current_properties if p.get('property_id')}
\* as list(....values()): a key keeps the place of its first occurrence and
\* holds the value of its last one
PropertyDictValues(properties) ==
    DictValuesAt(properties, FirstPositions(properties))

\* lines 879-885: the loop over reversed(history_weeks), positions k down to
\* 1: the oldest week is visited first, the most recent one last
RECURSIVE SeenLoop(_, _, _, _, _)
SeenLoop(history_weeks, history_property_ids, prop_id, k, acc) ==
    IF k = 0 THEN acc
    ELSE SeenLoop(history_weeks, history_property_ids, prop_id, k - 1,
                  IF prop_id \in history_property_ids[k]
                  THEN [weeks_seen |-> acc.weeks_seen + 1,
                        first_seen_week |-> history_weeks[k]]
                  ELSE acc)

\* lines 887-896: the tag for what the loop over the history found
TagSeen(prop, seen, current_week_id) ==
    IF seen.weeks_seen = 0 THEN TagNew(prop, current_week_id)
    ELSE TagActive(prop, seen.weeks_seen, seen.first_seen_week)

\* lines 877-896: the status of one record of the current week
TagCurrent(prop, history_weeks, history_property_ids, current_week_id) ==
    TagSeen(prop,
            SeenLoop(history_weeks, history_property_ids, prop.property_id,
                     Len(history_weeks),
                     [weeks_seen |-> 0, first_seen_week |-> current_week_id]),
            current_week_id)

\* DisappearedIds with the difference taken the other way round
DisappearedIdsReversed(last_week_ids, current_ids) == current_ids \ last_week_ids

\* line 904: the ids of the most recent prior week that the current week lacks
DisappearedIds(last_week_ids, current_ids) == last_week_ids \ current_ids

\* lines 909-914: the reloaded records whose id disappeared, tagged
TagGone(gone, current_week_id) ==
    [i \in 1..Len(gone) |-> TagInactive(gone[i], current_week_id)]

\* lines 906-914: the most recent prior week reloaded for the ids that vanished
ReloadGone(disappeared_ids, city, district, building_type, property_category, last_week, current_week_id) ==
    IF disappeared_ids = {} THEN << >>
    ELSE TagGone(SelectSeq(load_csv_data(city, district, building_type,
                                         property_category, last_week),
                           LAMBDA p : p.property_id \in disappeared_ids),
                 current_week_id)

\* Vanished with the oldest week of the window in the place of the most
\* recent one
VanishedFromOldest(history_weeks, history_property_ids, current_ids, city, district, building_type, property_category, current_week_id) ==
    IF history_weeks = << >> THEN << >>
    ELSE ReloadGone(DisappearedIds(history_property_ids[Len(history_weeks)],
                                   current_ids),
                    city, district, building_type, property_category,
                    history_weeks[Len(history_weeks)], current_week_id)

\* lines 901-914: the records of the most recent prior week that vanished
Vanished(history_weeks, history_property_ids, current_ids, city, district, building_type, property_category, current_week_id) ==
    IF history_weeks = << >> THEN << >>
    ELSE ReloadGone(DisappearedIds(history_property_ids[1], current_ids),
                    city, district, building_type, property_category,
                    history_weeks[1], current_week_id)

\* lines 846-849: every record new
AllNew(current_properties, current_week_id) ==
    [i \in 1..Len(current_properties) |->
        TagNew(current_properties[i], current_week_id)]

\* lines 877-898: the records of the current week, tagged
TagAll(values, history_weeks, history_property_ids, current_week_id) ==
    [i \in 1..Len(values) |->
        TagCurrent(values[i], history_weeks, history_property_ids,
                   current_week_id)]

\* the loop of lines 858-864 left at the first week that gives no id
HistoryPropertyIdsUntilEmpty(history_weeks, city, district, building_type, property_category) ==
    [k \in 1..Len(history_weeks) |->
        IF \E j \in 1..(k - 1) :
               load_property_ids_for_week(city, district, building_type,
                                          property_category,
                                          history_weeks[j]) = {}
        THEN {}
        ELSE load_property_ids_for_week(city, district, building_type,
                                        property_category, history_weeks[k])]

\* lines 858-864: the id set of every week of the history; a week that
\* cannot be loaded has the empty set
HistoryPropertyIds(history_weeks, city, district, building_type, property_category) ==
    [k \in 1..Len(history_weeks) |->
        load_property_ids_for_week(city, district, building_type,
                                   property_category, history_weeks[k])]

\* lines 873-916 for the history loaded
Reconcile(current_properties, history_weeks, history_property_ids, city, district, building_type, property_category, current_week_id) ==
    TagAll(PropertyDictValues(current_properties), history_weeks,
           history_property_ids, current_week_id)
        \o Vanished(history_weeks, history_property_ids,
                    PropertyIds(current_properties), city, district,
                    building_type, property_category, current_week_id)

\* lines 855-916 for the history weeks
WithHistory(current_properties, history_weeks, city, district, building_type, property_category, current_week_id) ==
    Reconcile(current_properties, history_weeks,
              HistoryPropertyIds(history_weeks, city, district, building_type,
                                 property_category),
              city, district, building_type, property_category, current_week_id)

\* lines 842-916 for the weeks of the catalog
StatusAmong(all_weeks, current_properties, city, district, building_type, property_category, current_week_id) ==
    IF all_weeks = << >> \/ IndexOf(all_weeks, current_week_id, 1) = 0
    THEN AllNew(current_properties, current_week_id)
    ELSE WithHistory(current_properties,
                     HistoryWeeks(all_weeks, current_week_id), city, district,
                     building_type, property_category, current_week_id)

calculate_property_status(current_properties, city, district, building_type, property_category, current_week_id) ==
    StatusAmong(get_all_week_ids, current_properties, city, district,
                building_type, property_category, current_week_id)

\* no reconciliation run yet
NoLoads == [ids |-> 0, full |-> 0]

\* lines 858-861 and 906-907: the calls of load_property_ids_for_week, one
\* for every week of the history, and the call of load_csv_data for the most
\* recent prior week, made when an id of it disappeared
LoadsFor(history_weeks, history_property_ids, current_ids) ==
    [ ids  |-> Len(history_weeks),
      full |-> IF history_weeks # << >>
                  /\ DisappearedIds(history_property_ids[1], current_ids) # {}
               THEN 1 ELSE 0 ]

\* lines 842-916: the prior-week loads of one calculate_property_status call
PriorLoadsAmong(all_weeks, current_properties, city, district, building_type, property_category, current_week_id) ==
    IF all_weeks = << >> \/ IndexOf(all_weeks, current_week_id, 1) = 0
    THEN NoLoads
    ELSE LoadsFor(HistoryWeeks(all_weeks, current_week_id),
                  HistoryPropertyIds(HistoryWeeks(all_weeks, current_week_id),
                                     city, district, building_type,
                                     property_category),
                  PropertyIds(current_properties))

(***************************************************************************)
(* analysis_v4: distance, filters and statistics                           *)
(***************************************************************************)

EarthRadius == 6371000

Abs(x) == IF x < 0 THEN -x ELSE x

\* R * delta for an arc of delta units (1/360000 degree), in whole metres
\* rounded down.  R * pi is 20 015 086.796 m for half a turn of 64 800 000
\* units: 20 015.08680 m for every 64 800 units and 0.30887 m for every unit.
ArcMetres(delta) ==
    (delta \div 64800) * (((EarthRadius \div 1000) * 355) \div 113)
        + ((delta \div 64800) * 8680 + (delta % 64800) * 30887) \div 100000

\* a distance: its whole metres, and whether it is exactly that many metres.
\* R * c is a whole number of metres only where the arc is zero.
ArcDistance(delta) == [metres |-> ArcMetres(delta), whole |-> delta = 0]

\* the shorter way round for a difference of longitudes
ShorterArc(delta) == IF delta > 64800000 THEN 129600000 - delta ELSE delta

\* haversine_distance where it has a closed form, and from the two origins
\* explored to the point (0, 0).  On one meridian a = sin^2(dlat/2), so
\* c = |dlat|; on the equator a = sin^2(dlon/2), so c = |dlon|.  From
\* (25.0288, 121.4625) and from (25.0298, 121.4625) to (0, 0) the function
\* evaluates to 13 145 965.63 m and 13 145 937.76 m.
haversine_distance(lat1, lon1, lat2, lon2) ==
    CASE lon1 = lon2 -> ArcDistance(Abs(lat2 - lat1))
      [] lon1 # lon2 /\ lat1 = 0 /\ lat2 = 0 ->
             ArcDistance(ShorterArc(Abs(lon2 - lon1)))
      [] << lat1, lon1, lat2, lon2 >> = << 9010368, 43726500, 0, 0 >> ->
             [metres |-> 13145965, whole |-> FALSE]
      [] << lat1, lon1, lat2, lon2 >> = << 9010728, 43726500, 0, 0 >> ->
             [metres |-> 13145937, whole |-> FALSE]

DefaultOrigin == [lat |-> 9010368, lng |-> 43726500]   \* (25.0288, 121.4625)

\* lines 1076-1079
QueryOrigin(q) ==
    IF q.has_lat /\ q.has_lng /\ q.lat # 0 /\ q.lng # 0
    THEN [lat |-> q.lat, lng |-> q.lng]
    ELSE DefaultOrigin

\* lines 1082-1087: the districts an address is searched for
AddressDistricts ==
    [i \in 1..23 |-> DistrictShortNames[i] \o Qu]

RECURSIVE FirstAddressDistrict(_, _)
FirstAddressDistrict(address, i) ==
    IF i > Len(AddressDistricts) THEN << >>
    ELSE IF Contains(AddressDistricts[i], address) THEN AddressDistricts[i]
    ELSE FirstAddressDistrict(address, i + 1)

\* lines 1081-1091
QueryDistrict(q) ==
    IF q.district # << >> THEN q.district ELSE FirstAddressDistrict(q.address, 1)

Room2 == << "2", "fang" >>                       \* 2房
Room3 == << "3", "fang" >>                       \* 3房
Room3Plus == << "3", "fang", "yi3", "shang" >>   \* 3房以上
WeiZhi == << "wei", "zhi1" >>                    \* 未知

\* lines 1093-1099
LoadCategory(q) ==
    IF q.room_type = TaoFang THEN TaoFang
    ELSE IF q.room_type \in {Room2, Room3, Room3Plus} THEN ZhuJia
    ELSE q.property_category

\* lines 1103-1107: 中正 大同 中山 松山 大安 萬華 信義 士林 北投 內湖 南港 文山
TaipeiDistricts ==
    {DistrictShortNames[i] \o Qu : i \in 18..29}

\* lines 1102-1107
CityFor(city, district) ==
    IF city # << >> THEN city
    ELSE IF district \in TaipeiDistricts THEN TaiBeiShiSimp
    ELSE XinBeiShi

QueryCity(q) == CityFor(q.city, QueryDistrict(q))

\* lines 1067-1073
QueryWeek(q) ==
    IF q.week_id # << >> THEN q.week_id
    ELSE IF get_all_week_ids # << >> THEN get_all_week_ids[1]
    ELSE get_week_id

\* lines 1128-1136: the loop over records i..Len(properties) with seen_ids
RECURSIVE UniqueFrom(_, _, _)
UniqueFrom(properties, i, seen_ids) ==
    IF i > Len(properties) THEN << >>
    ELSE IF properties[i].property_id # << >>
            /\ properties[i].property_id \notin seen_ids
         THEN << properties[i] >>
                  \o UniqueFrom(properties, i + 1,
                                seen_ids \cup {properties[i].property_id})
         ELSE UniqueFrom(properties, i + 1, seen_ids)

\* unique_properties without the seen_ids test
unique_properties_unseen(properties) == properties

unique_properties(properties) == UniqueFrom(properties, 1, {})

\* IsZeroCoordinate with the test of line 1140 left out
IsZeroCoordinateNever(prop) == FALSE

\* line 1140: the record carries the "unknown" coordinates
IsZeroCoordinate(prop) == prop.latitude = 0 /\ prop.longitude = 0

\* InDistanceRange with the upper bound exclusive
InDistanceRangeOpen(distance, distance_min, distance_max) ==
    distance_min <= distance.metres /\ distance.metres < distance_max

\* line 1145: distance_min <= distance <= distance_max on whole-metre bounds
InDistanceRange(distance, distance_min, distance_max) ==
    /\ distance_min <= distance.metres
    /\ IF distance.whole THEN distance.metres <= distance_max
       ELSE distance.metres < distance_max

LargeRoomMarks ==
    { << "4" >>, << "5" >>, << "6" >>, << "7" >>, << "8" >>, << "9" >>,
      << "si" >>, << "wu" >>, << "liu" >>, << "qi" >>, << "ba" >>, << "jiu" >> }

\* lines 1148-1162: the record passes the room_type filter
PassesRoomType(prop, room_type) ==
    IF room_type = << >> \/ room_type = QuanBu THEN TRUE
    ELSE IF room_type = TaoFang
         THEN prop.property_category = TaoFang \/ Contains(TaoFang, prop.room_type)
    ELSE IF room_type = Room2
         THEN Contains(<< "2" >>, prop.room_type)
                  \/ Contains(<< "liang" >>, prop.room_type)
    ELSE IF room_type = Room3
         THEN Contains(<< "3" >>, prop.room_type)
                  \/ Contains(<< "san" >>, prop.room_type)
    ELSE IF room_type = Room3Plus
         THEN \E m \in LargeRoomMarks : Contains(m, prop.room_type)
    ELSE TRUE

\* lines 1145-1164: the record at its distance, kept or dropped
KeepAt(prop, distance, q) ==
    IF InDistanceRange(distance, q.distance_min, q.distance_max)
       /\ PassesRoomType(prop, q.room_type)
    THEN << [prop EXCEPT !.distance = distance] >>
    ELSE << >>

\* lines 1140-1164: one turn of the loop
FilterOne(prop, origin, q) ==
    IF IsZeroCoordinate(prop) THEN << >>
    ELSE KeepAt(prop,
                haversine_distance(origin.lat, origin.lng, prop.latitude,
                                   prop.longitude),
                q)

\* lines 1138-1164
RECURSIVE FilterFrom(_, _, _, _)
FilterFrom(properties, i, origin, q) ==
    IF i > Len(properties) THEN << >>
    ELSE FilterOne(properties[i], origin, q)
             \o FilterFrom(properties, i + 1, origin, q)

filtered_properties(properties, origin, q) == FilterFrom(properties, 1, origin, q)

\* lines 1167-1169
WithStatus(filtered, status) == SelectSeq(filtered, LAMBDA p : p.status = status)

\* available_properties with the inactive records left in
available_properties_all(filtered) == filtered

\* line 1172: new_properties + active_properties
available_properties(filtered) ==
    WithStatus(filtered, "new") \o WithStatus(filtered, "active")

\* sum(p['rent_monthly'] for p in seq)
RECURSIVE SumRent(_)
SumRent(seq) == IF seq = << >> THEN 0 ELSE Head(seq).rent_monthly + SumRent(Tail(seq))

\* sum(p['area'] for p in seq)
RECURSIVE SumArea(_)
SumArea(seq) == IF seq = << >> THEN 0 ELSE Head(seq).area + SumArea(Tail(seq))

\* the integer nearest to q + r / den, halves going to the even one
NearestEven(q, r, den) ==
    IF 2 * r < den THEN q
    ELSE IF 2 * r > den THEN q + 1
    ELSE IF q % 2 = 0 THEN q ELSE q + 1

\* round(num / den) for num >= 0, den > 0: Python rounds halves to even
RoundHalfEven(num, den) == NearestEven(num \div den, num % den, den)

\* the rents of a list
Rents(avail) == {avail[i].rent_monthly : i \in 1..Len(avail)}

\* min(...) and max(...) of a non-empty set of integers
MinOf(S) == CHOOSE r \in S : \A x \in S : r <= x
MaxOf(S) == CHOOSE r \in S : \A x \in S : x <= r

\* line 1178: the mean, in tenths, of the areas above zero
AvgArea(sized) ==
    RoundHalfEven(SumArea(sized), IF sized = << >> THEN 1 ELSE Len(sized))

\* lines 1174-1180 and 1206-1209: the statistics over the available records
Statistics(avail) ==
    IF avail = << >>
    THEN [avg_rent_all |-> 0, min_rent |-> 0, max_rent |-> 0, avg_area |-> 0]
    ELSE [avg_rent_all |-> RoundHalfEven(SumRent(avail), Len(avail)),
          min_rent     |-> MinOf(Rents(avail)),
          max_rent     |-> MaxOf(Rents(avail)),
          avg_area     |-> AvgArea(SelectSeq(avail, LAMBDA p : p.area > 0))]

\* lines 1201-1211 for the statistics computed
SummaryOf(filtered, stats) ==
    [ total_properties     |-> Len(filtered),
      available_properties |-> Len(available_properties(filtered)),
      new_properties       |-> Len(WithStatus(filtered, "new")),
      active_properties    |-> Len(WithStatus(filtered, "active")),
      inactive_properties  |-> Len(WithStatus(filtered, "inactive")),
      avg_rent_all         |-> stats.avg_rent_all,
      min_rent             |-> stats.min_rent,
      max_rent             |-> stats.max_rent,
      avg_area             |-> stats.avg_area ]

\* lines 1166-1180 and 1201-1211
Summary(filtered) ==
    SummaryOf(filtered, Statistics(available_properties(filtered)))

\* p['room_type'] or '未知'
RoomLabel(p) == IF p.room_type = << >> THEN WeiZhi ELSE p.room_type

\* lines 1182-1185: the labels in first-seen order
RECURSIVE RoomLabels(_, _)
RoomLabels(avail, seen) ==
    IF avail = << >> THEN << >>
    ELSE IF RoomLabel(Head(avail)) \in seen THEN RoomLabels(Tail(avail), seen)
    ELSE << RoomLabel(Head(avail)) >>
             \o RoomLabels(Tail(avail), seen \cup {RoomLabel(Head(avail))})

\* sorted(..., key=lambda x: -x[1]): stable insertion into descending counts
RECURSIVE InsertByCount(_, _)
InsertByCount(sorted, e) ==
    IF sorted = << >> THEN << e >>
    ELSE IF Head(sorted).count >= e.count
         THEN << Head(sorted) >> \o InsertByCount(Tail(sorted), e)
         ELSE << e >> \o sorted

RECURSIVE SortByCountDesc(_)
SortByCountDesc(entries) ==
    IF entries = << >> THEN << >>
    ELSE InsertByCount(SortByCountDesc(SubSeq(entries, 1, Len(entries) - 1)),
                       entries[Len(entries)])

\* lines 1182-1185: the count of every label
CountLabels(avail, labels) ==
    [k \in 1..Len(labels) |->
        [room_type |-> labels[k],
         count |-> Len(SelectSeq(avail, LAMBDA p : RoomLabel(p) = labels[k]))]]

\* lines 1182-1187 over the available records
RoomTypesOf(avail) == SortByCountDesc(CountLabels(avail, RoomLabels(avail, {})))

room_type_analysis(filtered) == RoomTypesOf(available_properties(filtered))

(***************************************************************************)
(* The request handler analysis_v4                                         *)
(***************************************************************************)

NoRequest ==
    [ served |-> FALSE, address |-> << >>, city |-> << >>, district |-> << >>,
      distance_min |-> 0, distance_max |-> 0, building_type |-> << >>,
      property_category |-> << >>, room_type |-> << >>, week_id |-> << >>,
      has_lat |-> FALSE, lat |-> 0, has_lng |-> FALSE, lng |-> 0 ]

NoResponse ==
    [ status |-> "none", week_id |-> << >>, district |-> << >>,
      properties |-> << >>,
      summary |-> [ total_properties |-> 0, available_properties |-> 0,
                    new_properties |-> 0, active_properties |-> 0,
                    inactive_properties |-> 0, avg_rent_all |-> 0,
                    min_rent |-> 0, max_rent |-> 0, avg_area |-> 0 ],
      room_type_analysis |-> << >>, data_source |-> "none" ]

\* lines 1189-1215: the response, and the lists the handler went through
Respond(q, week_id, district, all_properties, with_status, filtered) ==
    /\ request' = [q EXCEPT !.served = TRUE]
    /\ loaded' = all_properties
    /\ reconciled' = with_status
    /\ response' =
           [ status |-> "success", week_id |-> week_id, district |-> district,
             properties |-> filtered,
             summary |-> Summary(filtered),
             room_type_analysis |-> room_type_analysis(filtered),
             data_source |-> IF drive_available THEN "google_drive" ELSE "local" ]
    /\ UNCHANGED << upload, csv_index, versions, drive_available,
                    filename, parts, parsed, coord_str, coord, scanVars,
                    clockVars >>

\* lines 1127-1215 for the records loaded and tagged
Finish(q, week_id, origin, district, all_properties, with_status) ==
    Respond(q, week_id, district, all_properties, with_status,
            filtered_properties(unique_properties(with_status), origin, q))

\* lines 1116-1215 for the records loaded
Tagged(q, week_id, origin, district, load_category, city, all_properties) ==
    /\ Finish(q, week_id, origin, district, all_properties,
              calculate_property_status(all_properties, city, district,
                                        q.building_type, load_category, week_id))
    /\ prior_loads' = PriorLoadsAmong(get_all_week_ids, all_properties, city,
                                      district, q.building_type, load_category,
                                      week_id)

\* lines 1108-1215 for the resolved query
Resolved(q, week_id, origin, district, load_category, city) ==
    Tagged(q, week_id, origin, district, load_category, city,
           load_csv_data(city, district, q.building_type, load_category,
                         week_id))

\* lines 1102-1215 for the district
InDistrict(q, district) ==
    Resolved(q, QueryWeek(q), QueryOrigin(q), district, LoadCategory(q),
             CityFor(q.city, district))

\* GET /api/analysis_v4 with the parameters q, start to finish
analysis_v4(q) == InDistrict(q, QueryDistrict(q))

(***************************************************************************)
(* The configurations explored                                             *)
(***************************************************************************)

\* the rows of the file of the week served and of the week before it
MaxRows == 2

\* the rows of the file of an older week
MaxOldRows == 1

\* every sequence over S of length at most n
SeqsUpTo(S, n) == UNION {[1..k -> S] : k \in 0..n}

\* every sequence over S of 1 to n elements
RowsUpTo(S, n) == UNION {[1..k -> S] : k \in 1..n}

ZhongHeQu == << "zhong", "he", "qu" >>    \* 中和區
YongHeQu == << "yong", "he", "qu" >>      \* 永和區

Week2603 == << "2", "6", "0", "3" >>
Week2604 == << "2", "6", "0", "4" >>
Week2605 == << "2", "6", "0", "5" >>

\* <city>_<district>_公寓_套房_<week>.csv
PartitionFileName(city, district, week) ==
    Concat(<< city, Underscore, district, Underscore, GongYu, Underscore,
              TaoFang, Underscore, week, DotCsv >>)

NorthPoint == [lat |-> 9010728, lng |-> 43726500]   \* (25.0298, 121.4625)

\* 25 deg 1' 43.68" N 121 deg 27' 45" E, which is (25.0288, 121.4625)
OriginDmsText ==
    << "2", "5", "deg", "1", "'", "4", "3", ".", "6", "8", "\"", "N", " ",
       "1", "2", "1", "deg", "2", "7", "'", "4", "5", "\"", "E" >>

RoadText == << "road" >>

\* listing 1 at the north point, 111 m from the default origin
Row1North ==
    [ pid |-> Num(1), address |-> Str(RoadText), rent |-> Num(100),
      area |-> Num(100), room_type |-> Str(TaoFang),
      lat |-> Num(NorthPoint.lat), lng |-> Num(NorthPoint.lng), coord |-> NaN ]

\* listing 1 again, other rent, located by DMS text at the default origin
Row1Origin ==
    [ pid |-> Num(1), address |-> Str(RoadText), rent |-> Num(200),
      area |-> NaN, room_type |-> NaN,
      lat |-> NaN, lng |-> NaN, coord |-> Str(OriginDmsText) ]

\* listing 2 without coordinates
Row2Nowhere ==
    [ pid |-> Num(2), address |-> Str(RoadText), rent |-> Num(151),
      area |-> Num(205), room_type |-> Str(Room2),
      lat |-> Num(0), lng |-> Num(0), coord |-> NaN ]

\* listing 3 on the equator, on the meridian of the default origin
Row3Equator ==
    [ pid |-> Num(3), address |-> NaN, rent |-> Num(300),
      area |-> Num(80), room_type |-> Str(TaoFang),
      lat |-> Num(0), lng |-> Num(DefaultOrigin.lng), coord |-> NaN ]

\* listing 4, located by DMS text at the default origin
Row4Origin ==
    [ pid |-> Num(4), address |-> Str(RoadText), rent |-> Num(201),
      area |-> NaN, room_type |-> NaN,
      lat |-> NaN, lng |-> NaN, coord |-> Str(OriginDmsText) ]

ReconRows == {Row1North, Row1Origin, Row2Nowhere}

OldRows == {Row1North, Row2Nowhere}

\* a file of the upload directory
File(name, rows) == [name |-> name, rows |-> rows, blank_lines |-> 0]

\* what the directory may hold for a district and week: no file, or a file
\* of 1 to n rows
NoFile == [present |-> FALSE, rows |-> << >>]

Contents(rows, n) ==
    {NoFile} \cup {[present |-> TRUE, rows |-> r] : r \in RowsUpTo(rows, n)}

\* the file of a district and week, when there is one
FileOrNone(district, week, contents) ==
    IF contents.present
    THEN << File(PartitionFileName(XinBeiShi, district, week), contents.rows) >>
    ELSE << >>

\* a directory: the 中和區 files of weeks 2603, 2604 and 2605, oldest first,
\* then the 永和區 file of week 2604 when there is one
ReconDirectory(c2603, c2604, c2605, other) ==
    FileOrNone(ZhongHeQu, Week2603, c2603)
        \o FileOrNone(ZhongHeQu, Week2604, c2604)
        \o FileOrNone(ZhongHeQu, Week2605, c2605)
        \o FileOrNone(YongHeQu, Week2604, other)

ReconDirectories ==
    { ReconDirectory(c2603, c2604, c2605, other) :
        c2603 \in Contents(OldRows, MaxOldRows),
        c2604 \in Contents(ReconRows, MaxRows),
        c2605 \in Contents(ReconRows, MaxRows),
        other \in {NoFile, [present |-> TRUE, rows |-> << Row2Nowhere >>]} }

\* a query for 中和區 with every other parameter left out
Query(week_id, distance_min, distance_max, room_type, has_origin, origin) ==
    [ served |-> TRUE, address |-> << >>, city |-> << >>, district |-> ZhongHeQu,
      distance_min |-> distance_min, distance_max |-> distance_max,
      building_type |-> << >>, property_category |-> << >>,
      room_type |-> room_type, week_id |-> week_id,
      has_lat |-> has_origin, lat |-> origin.lat,
      has_lng |-> has_origin, lng |-> origin.lng ]

\* the queries of the reconciliation runs: a week, or none, and the default
\* distance range around the default origin
ReconRequest(week_id) == Query(week_id, 0, 5000, << >>, FALSE, ZeroCoordinate)

ReconRequests ==
    {ReconRequest(w) : w \in {<< >>, Week2604, Week2605}}

GeoRows == {Row1North, Row2Nowhere, Row3Equator, Row4Origin}

\* a directory of the geo runs: the 中和區 files of weeks 2604 and 2605
GeoDirectory(c2604, c2605) ==
    FileOrNone(ZhongHeQu, Week2604, c2604) \o FileOrNone(ZhongHeQu, Week2605, c2605)

GeoDirectories ==
    { GeoDirectory(c2604, c2605) :
        c2604 \in Contents(GeoRows, MaxOldRows),
        c2605 \in Contents(GeoRows, MaxRows) }

\* distance_min and distance_max: around 0 m, around 111.19 m, and everything
GeoRanges ==
    { << 0, 0 >>, << 0, 111 >>, << 0, 112 >>, << 111, 20000000 >>,
      << 112, 20000000 >> }

\* lat and lng left out, or the north point
GeoOrigins ==
    { [given |-> FALSE, at |-> ZeroCoordinate], [given |-> TRUE, at |-> NorthPoint] }

\* the queries of the geo runs: the latest week, an origin and a range; and
\* one query with a room_type
GeoRequests ==
    { Query(<< >>, r[1], r[2], << >>, o.given, o.at) :
        r \in GeoRanges, o \in GeoOrigins }
      \cup { Query(<< >>, 0, 20000000, Room2, FALSE, ZeroCoordinate) }

NotParsed ==
    [ done |-> FALSE, city |-> << >>, district |-> << >>,
      building_type |-> << >>, property_category |-> << >>, week_id |-> << >> ]

NoCoordinate == [done |-> FALSE, lat |-> 0, lng |-> 0]

\* no file name parsed
FilenameIdle == filename = << >> /\ parts = << >> /\ parsed = NotParsed

\* no coordinate text parsed
CoordinateIdle == coord_str = << >> /\ coord = NoCoordinate

\* no scan in progress, no reader served
ScanIdle ==
    /\ rescans = 0 /\ scan = NoScan /\ snapshot = NoSnapshot /\ admin = NoAdmin
    /\ cache = {} /\ fetches = << >>

\* no week token computed
ClockIdle == date = Now /\ week_token = << >>

\* the service after startup_event: the directory scanned, nothing served yet
Started(dir, available) ==
    /\ upload = dir
    /\ csv_index = ScanIndex(dir)
    /\ versions = ScanWeekIds(dir)
    /\ drive_available = available
    /\ drive = NoDrive
    /\ request = NoRequest
    /\ loaded = << >>
    /\ reconciled = << >>
    /\ response = NoResponse
    /\ prior_loads = NoLoads

(***************************************************************************)
(* Reconciliation runs: three weeks of one partition, queried by week      *)
(***************************************************************************)

Init ==
    /\ \E dir \in ReconDirectories : Started(dir, FALSE)
    /\ FilenameIdle
    /\ CoordinateIdle
    /\ ScanIdle
    /\ ClockIdle

Analysis == \E q \in ReconRequests : analysis_v4(q)

Next == Analysis

Spec == Init /\ [][Next]_vars

(***************************************************************************)
(* Geo runs: two weeks of one partition, queried by origin and range       *)
(***************************************************************************)

InitGeo ==
    /\ \E dir \in GeoDirectories : Started(dir, FALSE)
    /\ FilenameIdle
    /\ CoordinateIdle
    /\ ScanIdle
    /\ ClockIdle

AnalysisGeo == \E q \in GeoRequests : analysis_v4(q)

NextGeo == AnalysisGeo

SpecGeo == InitGeo /\ [][NextGeo]_vars

(***************************************************************************)
(* File-name runs: parse_csv_filename on assembled names                   *)
(***************************************************************************)

\* the cities a name may start with; the last one is not in the program's list
FilenameCities ==
    {XinBeiShi, TaiBeiShiTrad, TaiBeiShiSimp, JiLongShi, TaoYuanShi, GaoXiongShi}

\* every district of the gazetteer, with 區
FilenameDistricts ==
    {DistrictShortNames[i] \o Qu : i \in 1..Len(DistrictShortNames)}

BuildingKeywords == {DianTiDaLou, DianTi, GongYu}

CategoryKeywords == {TaoFang, DuLiTaoFang, ZhuJia, ZhengCengZhuJia}

FilenameWeeks == {Week2604, << "2", "5", "5", "2" >>}

FilenameParts ==
    [ city : FilenameCities, district : FilenameDistricts,
      building : BuildingKeywords, category : CategoryKeywords,
      week : FilenameWeeks, merged : BOOLEAN ]

\* <city>_<district>_<building keyword>_<category keyword>_<WWWW>.csv, or the
\* same with _merged before .csv
AssembleFilename(p) ==
    Concat(<< p.city, Underscore, p.district, Underscore, p.building,
              Underscore, p.category, Underscore, p.week,
              IF p.merged THEN MergedSuffix ELSE << >>, DotCsv >>)

InitFilename ==
    /\ Started(<< >>, FALSE)
    /\ \E p \in FilenameParts : parts = p /\ filename = AssembleFilename(p)
    /\ parsed = NotParsed
    /\ CoordinateIdle
    /\ ScanIdle
    /\ ClockIdle

\* the result of a call, as the variable parsed holds it
Returned(info) ==
    [ done |-> TRUE, city |-> info.city, district |-> info.district,
      building_type |-> info.building_type,
      property_category |-> info.property_category, week_id |-> info.week_id ]

\* a call parse_csv_filename(filename)
ParseFilename ==
    /\ ~parsed.done
    /\ parsed' = Returned(parse_csv_filename(filename))
    /\ UNCHANGED << upload, csv_index, versions, drive_available, request,
                    loaded, reconciled, response, filename, parts, coord_str,
                    coord, scanVars, clockVars, prior_loads >>

NextFilename == ParseFilename

SpecFilename == InitFilename /\ [][NextFilename]_vars

(***************************************************************************)
(* Coordinate runs: parse_dms_coordinate on assembled text                 *)
(***************************************************************************)

\* the text is at most this many pieces long
MaxPieces == 4

\* 25 deg 1' 43.68" and 121 deg 27' 45", without the hemisphere letter
LatitudeDms ==
    << "2", "5", "deg", "1", "'", "4", "3", ".", "6", "8", "\"" >>
LongitudeDms ==
    << "1", "2", "1", "deg", "2", "7", "'", "4", "5", "\"" >>

\* the pieces coordinate text is assembled from
CoordinatePieces ==
    { LatitudeDms, LongitudeDms, << "N" >>, << "S" >>, << "E" >>, << "W" >>,
      << " " >>, << "5" >>, << "x" >>, NaNText }

CoordinateTexts == {Concat(ps) : ps \in SeqsUpTo(CoordinatePieces, MaxPieces)}

InitCoord ==
    /\ Started(<< >>, FALSE)
    /\ FilenameIdle
    /\ coord_str \in CoordinateTexts
    /\ coord = NoCoordinate
    /\ ScanIdle
    /\ ClockIdle

\* the result of a call, as the variable coord holds it
ReturnedPair(pair) == [done |-> TRUE, lat |-> pair.lat, lng |-> pair.lng]

\* a call parse_dms_coordinate(coord_str)
ParseCoordinate ==
    /\ ~coord.done
    /\ coord' = ReturnedPair(parse_dms_coordinate(coord_str))
    /\ UNCHANGED << upload, csv_index, versions, drive_available, request,
                    loaded, reconciled, response, filename, parts, parsed,
                    coord_str, scanVars, clockVars, prior_loads >>

NextCoord == ParseCoordinate

SpecCoord == InitCoord /\ [][NextCoord]_vars

(***************************************************************************)
(* Properties of the reconciliation runs, stated against the upload        *)
(* directory: what the files of the partition hold, week by week           *)
(***************************************************************************)

\* the weeks a file of these runs can be named for
AllWeeks == {Week2603, Week2604, Week2605}

\* the rows the 中和區 files of a week hold, in file order
RowsOfWeek(w) ==
    Concat([i \in 1..Len(upload) |->
               IF upload[i].name = PartitionFileName(XinBeiShi, ZhongHeQu, w)
               THEN upload[i].rows ELSE << >>])

\* the property_id of a row, as text
IdOf(row) == IntToStr(row.pid.n)

\* the record set of a week: the property_ids of its rows
IdsOfWeek(w) == {IdOf(RowsOfWeek(w)[i]) : i \in 1..Len(RowsOfWeek(w))}

\* the weeks some file of the directory is named for, whatever its district
CatalogWeeks ==
    {w \in AllWeeks : \E i \in 1..Len(upload) :
        EndsWith(upload[i].name, Underscore \o w \o DotCsv)}

\* the catalog's weeks before w
PriorWeeks(w) == {v \in CatalogWeeks : DecimalValue(v) < DecimalValue(w)}

\* the week immediately preceding w in the catalog (W-1)
PreviousWeek(w) ==
    CHOOSE v \in PriorWeeks(w) :
        \A u \in PriorWeeks(w) : DecimalValue(u) <= DecimalValue(v)

\* the ids of the weeks older than W-1
OlderIds(w) == UNION {IdsOfWeek(v) : v \in PriorWeeks(w) \ {PreviousWeek(w)}}

\* a request was served for week w, a week of the catalog with a week before it
ReconciledWithHistory(w) ==
    /\ request.served
    /\ response.week_id = w
    /\ w \in CatalogWeeks
    /\ PriorWeeks(w) # {}

\* the records of the reconciliation's result that carry an id
RecordsOf(id) == SelectSeq(reconciled, LAMBDA p : p.property_id = id)

\* the ids in W and in W-1 and in no older week
ContinuingIds(w) == (IdsOfWeek(w) \cap IdsOfWeek(PreviousWeek(w))) \ OlderIds(w)

\* C1: reconciling week W, every listing whose id is in W's record set and
\* in that of the week immediately preceding W in the catalog, and in no
\* older week, is returned with status 'active' and weeks_active = 2
C1_ContinuingIsActive ==
    \A w \in AllWeeks :
        ReconciledWithHistory(w) =>
            \A id \in ContinuingIds(w) :
                /\ RecordsOf(id) # << >>
                /\ \A i \in 1..Len(RecordsOf(id)) :
                       /\ RecordsOf(id)[i].status = "active"
                       /\ RecordsOf(id)[i].weeks_active = 2

\* week 2605 reconciled with a listing also in week 2604, while week 2603
\* holds other listings only
C1_Witness ==
    /\ ReconciledWithHistory(Week2605)
    /\ PreviousWeek(Week2605) = Week2604
    /\ IdsOfWeek(Week2603) # {}
    /\ ContinuingIds(Week2605) # {}

\* the ids in W-1 and not in W
VanishedIds(w) == IdsOfWeek(PreviousWeek(w)) \ IdsOfWeek(w)

FreshIds(w) == IdsOfWeek(w) \ UNION {IdsOfWeek(v) : v \in PriorWeeks(w)}

\* C3: reconciling week W, every listing of W whose id appears in none of
\* the prior lookback weeks is returned with status 'new', weeks_active = 1
\* and first_seen_week = W; with no prior week at all, that is every record
C3_FreshIsNew ==
    \A w \in AllWeeks :
        (request.served /\ response.week_id = w) =>
            \A id \in FreshIds(w) :
                /\ RecordsOf(id) # << >>
                /\ \A i \in 1..Len(RecordsOf(id)) :
                       /\ RecordsOf(id)[i].status = "new"
                       /\ RecordsOf(id)[i].weeks_active = 1
                       /\ RecordsOf(id)[i].first_seen_week = w

\* week 2605 reconciled with prior weeks in the catalog, one of its listings
\* in none of them and another in one of them
C3_Witness ==
    /\ ReconciledWithHistory(Week2605)
    /\ FreshIds(Week2605) # {}
    /\ IdsOfWeek(Week2605) \ FreshIds(Week2605) # {}

\* a list holds at most one record for every property_id
OnePerId(properties) ==
    \A i, j \in 1..Len(properties) :
        properties[i].property_id = properties[j].property_id => i = j

\* the records of the week served, as the reconciliation returns them
CurrentRecords == SelectSeq(reconciled, LAMBDA p : p.status # "inactive")

\* C4, as the code has it: the final query result holds at most one record
\* for every property_id, and so do the records of the week served in the
\* reconciliation's result; the list the loader returns and the vanished
\* records the reconciliation appends keep every row
C4_OnePerIdInResult ==
    request.served => OnePerId(response.properties) /\ OnePerId(CurrentRecords)

\* C4, as stated: the loader keeps exactly one of two rows with the same
\* property_id, so the record list produced for a week and the final query
\* result hold at most one record for every property_id
C4_OnePerIdEverywhere ==
    request.served =>
        OnePerId(loaded) /\ OnePerId(reconciled) /\ OnePerId(response.properties)

\* a week served whose file holds two rows for one listing, which is in the
\* final result
C4_Witness ==
    /\ request.served
    /\ ~OnePerId(loaded)
    /\ \E i \in 1..Len(response.properties) :
           \E j, k \in 1..Len(loaded) :
               /\ j # k
               /\ loaded[j].property_id = response.properties[i].property_id
               /\ loaded[k].property_id = response.properties[i].property_id

\* the first row of a week that carries an id
FirstRowOf(w, id) ==
    RowsOfWeek(w)[CHOOSE i \in 1..Len(RowsOfWeek(w)) :
                      /\ IdOf(RowsOfWeek(w)[i]) = id
                      /\ \A j \in 1..(i - 1) : IdOf(RowsOfWeek(w)[j]) # id]

\* C5, as stated: when several rows of the week served share a property_id,
\* the record that survives has the field values of the first of them
C5_FirstOccurrenceSurvives ==
    \A w \in AllWeeks :
        (request.served /\ response.week_id = w) =>
            \A i \in 1..Len(response.properties) :
                response.properties[i].status # "inactive" =>
                    response.properties[i].rent_monthly =
                        FirstRowOf(w, response.properties[i].property_id).rent.n

(***************************************************************************)
(* Properties of the geo runs                                              *)
(***************************************************************************)

\* the origin a served request is measured from
ServedOrigin ==
    IF request.has_lat /\ request.has_lng
    THEN [lat |-> request.lat, lng |-> request.lng]
    ELSE DefaultOrigin

\* the value of haversine_distance between the points of these runs, as
\* main_v4.py computes it: 0.0 from a point to itself, 111.19 m between the
\* default origin and the north point, 2 783 075.58 m and 2 783 186.77 m
\* from the two to the point on the equator
ExpectedDistance(origin, lat, lng) ==
    CASE lat = origin.lat /\ lng = origin.lng -> [metres |-> 0, whole |-> TRUE]
      [] lng = origin.lng /\ {lat, origin.lat} = {DefaultOrigin.lat, NorthPoint.lat} ->
             [metres |-> 111, whole |-> FALSE]
      [] lng = origin.lng /\ lat = 0 /\ origin.lat = DefaultOrigin.lat ->
             [metres |-> 2783075, whole |-> FALSE]
      [] lng = origin.lng /\ lat = 0 /\ origin.lat = NorthPoint.lat ->
             [metres |-> 2783186, whole |-> FALSE]

\* lo <= d <= hi for a distance d and whole numbers of metres lo and hi
Between(d, lo, hi) ==
    /\ lo <= d.metres
    /\ IF d.whole THEN d.metres <= hi ELSE d.metres + 1 <= hi

\* the record is at the point (0, 0)
AtZero(p) == p.latitude = 0 /\ p.longitude = 0

\* the records of the reconciliation's result that have coordinates
LocatedRecords == SelectSeq(reconciled, LAMBDA p : ~AtZero(p))

\* p['room_type'] or '未知' of the located records
LocatedLabels ==
    {IF LocatedRecords[i].room_type = << >> THEN WeiZhi
     ELSE LocatedRecords[i].room_type : i \in 1..Len(LocatedRecords)}

LocatedRents == {LocatedRecords[i].rent_monthly : i \in 1..Len(LocatedRecords)}

LocatedAreas == {LocatedRecords[i].area : i \in 1..Len(LocatedRecords)}

\* C6: a record whose coordinates are (0, 0) never appears in the
\* geo-filtered result and never contributes to an aggregate, whatever the
\* origin and the distance bounds: the counts, the rents, the average area
\* and the room types of the summary all come from located records
C6_ZeroCoordinateExcluded ==
    request.served =>
        /\ \A i \in 1..Len(response.properties) : ~AtZero(response.properties[i])
        /\ response.summary.total_properties <= Len(LocatedRecords)
        /\ response.summary.available_properties <= Len(LocatedRecords)
        /\ response.summary.min_rent \in LocatedRents \cup {0}
        /\ response.summary.max_rent \in LocatedRents \cup {0}
        /\ \A r \in LocatedRents \cup {0} :
               (\A x \in LocatedRents : x <= r) => response.summary.avg_rent_all <= r
        /\ \A a \in LocatedAreas \cup {0} :
               (\A x \in LocatedAreas : x <= a) => response.summary.avg_area <= a
        /\ \A k \in 1..Len(response.room_type_analysis) :
               response.room_type_analysis[k].room_type \in LocatedLabels

\* a request with the widest range served from a week that holds a record
\* at (0, 0) and a located one, which is in the result
C6_Witness ==
    /\ request.served
    /\ request.distance_max = 20000000
    /\ \E i \in 1..Len(reconciled) :
           AtZero(reconciled[i]) /\ reconciled[i].status # "inactive"
    /\ response.properties # << >>

\* the record is in the final result
InResult(p) ==
    \E j \in 1..Len(response.properties) :
        response.properties[j].property_id = p.property_id

\* C7: with no room_type filter, a record with coordinates other than (0, 0)
\* is in the filtered result exactly when distance_min <= distance <=
\* distance_max for its haversine distance to the origin, a record at
\* exactly distance_min or distance_max included; the result carries that
\* distance
C7_InRangeIffInResult ==
    (request.served /\ request.room_type = << >>) =>
        /\ \A i \in 1..Len(LocatedRecords) :
               InResult(LocatedRecords[i]) <=>
                   Between(ExpectedDistance(ServedOrigin, LocatedRecords[i].latitude,
                                            LocatedRecords[i].longitude),
                           request.distance_min, request.distance_max)
        /\ \A j \in 1..Len(response.properties) :
               response.properties[j].distance =
                   ExpectedDistance(ServedOrigin, response.properties[j].latitude,
                                    response.properties[j].longitude)

\* the range from 0 to 0 served: a record at the origin, at exactly both
\* bounds, is in the result and a record 111 m away is not
C7_Witness ==
    /\ request.served
    /\ request.room_type = << >>
    /\ request.distance_min = 0
    /\ request.distance_max = 0
    /\ \E j \in 1..Len(response.properties) :
           response.properties[j].distance = [metres |-> 0, whole |-> TRUE]
    /\ \E i \in 1..Len(LocatedRecords) : ~InResult(LocatedRecords[i])

\* the records of the final result that are not inactive
Listed(status) == SelectSeq(response.properties, LAMBDA p : p.status = status)

NotInactive == SelectSeq(response.properties, LAMBDA p : p.status # "inactive")

\* the sum of the rents of the first n records of a list
RECURSIVE RentTotal(_, _)
RentTotal(seq, n) ==
    IF n = 0 THEN 0 ELSE seq[n].rent_monthly + RentTotal(seq, n - 1)

\* the sum of the areas of the first n records of a list
RECURSIVE AreaTotal(_, _)
AreaTotal(seq, n) == IF n = 0 THEN 0 ELSE seq[n].area + AreaTotal(seq, n - 1)

\* the number of records of a list with an area above zero
Sized(seq) == Cardinality({i \in 1..Len(seq) : seq[i].area > 0})

\* avg is sum / n rounded to a nearest whole number
IsRounded(avg, sum, n) == 2 * Abs(avg * n - sum) <= n

\* the number of records of a list whose room type, or 未知, is label
Labelled(seq, label) ==
    Cardinality({i \in 1..Len(seq) :
        (IF seq[i].room_type = << >> THEN WeiZhi ELSE seq[i].room_type) = label})

\* C8: the summary statistics (available count, min/avg/max rent, average
\* area, room_type breakdown) are those of the filtered records that are not
\* 'inactive'; inactive records are listed and counted in the total and in
\* the inactive count
C8_StatisticsSkipInactive ==
    request.served =>
        /\ response.summary.total_properties = Len(response.properties)
        /\ response.summary.inactive_properties = Len(Listed("inactive"))
        /\ response.summary.available_properties = Len(NotInactive)
        /\ IF NotInactive = << >>
           THEN /\ response.summary.min_rent = 0
                /\ response.summary.max_rent = 0
                /\ response.summary.avg_rent_all = 0
                /\ response.summary.avg_area = 0
           ELSE /\ \E i \in 1..Len(NotInactive) :
                       NotInactive[i].rent_monthly = response.summary.min_rent
                /\ \E i \in 1..Len(NotInactive) :
                       NotInactive[i].rent_monthly = response.summary.max_rent
                /\ \A i \in 1..Len(NotInactive) :
                       /\ response.summary.min_rent <= NotInactive[i].rent_monthly
                       /\ NotInactive[i].rent_monthly <= response.summary.max_rent
                /\ IsRounded(response.summary.avg_rent_all,
                             RentTotal(NotInactive, Len(NotInactive)),
                             Len(NotInactive))
                /\ IF Sized(NotInactive) = 0 THEN response.summary.avg_area = 0
                   ELSE IsRounded(response.summary.avg_area,
                                  AreaTotal(NotInactive, Len(NotInactive)),
                                  Sized(NotInactive))
        /\ \A k \in 1..Len(response.room_type_analysis) :
               /\ response.room_type_analysis[k].count > 0
               /\ response.room_type_analysis[k].count =
                      Labelled(NotInactive, response.room_type_analysis[k].room_type)
        /\ \A i \in 1..Len(NotInactive) :
               \E k \in 1..Len(response.room_type_analysis) :
                   response.room_type_analysis[k].room_type =
                       (IF NotInactive[i].room_type = << >> THEN WeiZhi
                        ELSE NotInactive[i].room_type)

\* a result that lists an inactive record beside an available one, its rent
\* below the least rent of the summary
C8_Witness ==
    /\ request.served
    /\ NotInactive # << >>
    /\ \E i \in 1..Len(response.properties) :
           /\ response.properties[i].status = "inactive"
           /\ response.properties[i].rent_monthly < response.summary.min_rent

(***************************************************************************)
(* Properties of the file-name runs                                        *)
(***************************************************************************)

\* the canonical form of a city of the program's list; '' for any other
CanonicalCity(city) ==
    CASE city = XinBeiShi -> XinBeiShi
      [] city \in {TaiBeiShiTrad, TaiBeiShiSimp} -> TaiBeiShiTrad
      [] city = JiLongShi -> JiLongShi
      [] city = TaoYuanShi -> TaoYuanShi
      [] OTHER -> << >>

\* C9: from a name <city>_<district>_<building keyword>_<category
\* keyword>_<WWWW>.csv the extraction returns the canonical city (for a city
\* of the program's list), the full district name, the building class, the
\* unit class and the four-digit week token
C9_FilenameFields ==
    parsed.done =>
        /\ parsed.city = CanonicalCity(parts.city)
        /\ parsed.district = parts.district
        /\ parsed.building_type =
               (IF parts.building = GongYu THEN Apartment ELSE Building)
        /\ parsed.property_category =
               (IF parts.category \in {TaoFang, DuLiTaoFang} THEN TaoFang
                ELSE ZhuJia)
        /\ parsed.week_id = parts.week

\* 新北市_中和區_公寓_套房_2604.csv parsed: 新北市, 中和區, apartment, 套房, 2604
C9_Witness ==
    /\ filename = << "xin", "bei", "shi", "_", "zhong", "he", "qu", "_",
                     "gong", "yu", "_", "tao4", "fang", "_",
                     "2", "6", "0", "4", ".", "c", "s", "v" >>
    /\ parsed = [ done |-> TRUE,
                  city |-> << "xin", "bei", "shi" >>,
                  district |-> << "zhong", "he", "qu" >>,
                  building_type |-> Apartment,
                  property_category |-> << "tao4", "fang" >>,
                  week_id |-> << "2", "6", "0", "4" >> ]

(***************************************************************************)
(* Properties of the coordinate runs                                       *)
(***************************************************************************)

\* s[i..j] is one or more digits
IsDigits(s, i, j) == i <= j /\ \A k \in i..j : IsDigit(s[k])

\* s[i..j] is digits, or digits, a point and digits
IsSeconds(s, i, j) ==
    \/ IsDigits(s, i, j)
    \/ \E k \in (i + 1)..(j - 1) :
           s[k] = "." /\ IsDigits(s, i, k - 1) /\ IsDigits(s, k + 1, j)

\* the text holds a component <deg> deg <min> ' <sec> " <hemisphere> with a
\* hemisphere of dirs
HasComponent(s, dirs) ==
    \E j \in 3..Len(s) :
        /\ s[j] \in dirs
        /\ s[j - 1] = "\""
        /\ \E a \in 2..(j - 2) :
               /\ s[a] = "deg"
               /\ \E b \in (a + 2)..(j - 3) :
                      /\ s[b] = "'"
                      /\ IsDigits(s, a + 1, b - 1)
                      /\ IsSeconds(s, b + 1, j - 2)
                      /\ \E i \in 1..(a - 1) : IsDigits(s, i, a - 1)

\* the text is a well-formed DMS pair: a latitude and a longitude component
WellFormedPair(s) == HasComponent(s, {"N", "S"}) /\ HasComponent(s, {"E", "W"})

\* C10: for every input that is not a well-formed DMS pair (empty, 'nan',
\* a missing hemisphere, one component only, any other text) the
\* normalization returns (0, 0); it returns a pair for every input
C10_MalformedIsZero ==
    coord.done => (~WellFormedPair(coord_str) => coord.lat = 0 /\ coord.lng = 0)

\* text with two latitude components and no longitude parsed to (0, 0)
C10_Witness ==
    /\ coord.done
    /\ coord_str = LatitudeDms \o << "N" >> \o LatitudeDms \o << "S" >>
    /\ coord.lat = 0
    /\ coord.lng = 0

(***************************************************************************)
(* Row runs: one file of one partition, its rows drawn from rows that      *)
(* normalize, rows the loop passes over and a row that raises              *)
(***************************************************************************)

\* the rows of the file
MaxFileRows == 3

\* listing 5, complete
RowComplete ==
    [ pid |-> Num(5), address |-> Str(RoadText), rent |-> Num(100),
      area |-> Num(100), room_type |-> Str(TaoFang),
      lat |-> Num(NorthPoint.lat), lng |-> Num(NorthPoint.lng), coord |-> NaN ]

\* a row without 案件編號
RowNoId ==
    [ pid |-> NaN, address |-> Str(RoadText), rent |-> Num(110),
      area |-> Num(100), room_type |-> Str(TaoFang),
      lat |-> Num(NorthPoint.lat), lng |-> Num(NorthPoint.lng), coord |-> NaN ]

\* listing 6 without 租金
RowNoRent ==
    [ pid |-> Num(6), address |-> Str(RoadText), rent |-> NaN,
      area |-> Num(100), room_type |-> Str(TaoFang),
      lat |-> Num(NorthPoint.lat), lng |-> Num(NorthPoint.lng), coord |-> NaN ]

\* listing 7 with 租金 0
RowZeroRent ==
    [ pid |-> Num(7), address |-> Str(RoadText), rent |-> Num(0),
      area |-> Num(100), room_type |-> Str(TaoFang),
      lat |-> Num(NorthPoint.lat), lng |-> Num(NorthPoint.lng), coord |-> NaN ]

\* listing 8 without 地址
RowNoAddress ==
    [ pid |-> Num(8), address |-> NaN, rent |-> Num(300),
      area |-> Num(100), room_type |-> Str(TaoFang),
      lat |-> Num(NorthPoint.lat), lng |-> Num(NorthPoint.lng), coord |-> NaN ]

\* listing 9 with text for 租金
RowTextRent ==
    [ pid |-> Num(9), address |-> Str(RoadText), rent |-> Str(<< "x" >>),
      area |-> Num(100), room_type |-> Str(TaoFang),
      lat |-> Num(NorthPoint.lat), lng |-> Num(NorthPoint.lng), coord |-> NaN ]

RowPool ==
    {RowComplete, RowNoId, RowNoRent, RowZeroRent, RowNoAddress, RowTextRent}

\* 新北市_中和區_公寓_套房_2605.csv with the given rows
RowsFile(rows) == File(PartitionFileName(XinBeiShi, ZhongHeQu, Week2605), rows)

InitRows ==
    /\ \E rows \in RowsUpTo(RowPool, MaxFileRows) :
           Started(<< RowsFile(rows) >>, FALSE)
    /\ FilenameIdle
    /\ CoordinateIdle
    /\ ScanIdle
    /\ ClockIdle

\* the queries of the row runs: the latest week by default, or by name
AnalysisRows == \E w \in {<< >>, Week2605} : analysis_v4(ReconRequest(w))

NextRows == AnalysisRows

SpecRows == InitRows /\ [][NextRows]_vars

(***************************************************************************)
(* Properties of the row runs                                              *)
(***************************************************************************)

\* the rows of the one file of the directory
FileRows == upload[1].rows

\* the rows a record of the given id may come from
RowsOfId(id) == {j \in 1..Len(FileRows) : ~IsNa(FileRows[j].pid) /\ IdOf(FileRows[j]) = id}

\* the row has an address: the cell is there and is not the empty string
HasAddress(row) == ~IsNa(row.address) /\ row.address # Str(<< >>)

\* every record loaded has a property_id and a positive rent
EmittedWithIdAndRent ==
    \A i \in 1..Len(loaded) :
        loaded[i].property_id # << >> /\ loaded[i].rent_monthly > 0

\* every record loaded comes from a row that has an address
EmittedWithAddress ==
    \A i \in 1..Len(loaded) :
        \E j \in RowsOfId(loaded[i].property_id) : HasAddress(FileRows[j])

\* C11, as stated: row normalization emits no record for a row without
\* property_id, without rent or with rent <= 0, or without address; every
\* record emitted has a property_id, a positive rent and a real address
C11_RejectsIncompleteRows ==
    request.served => EmittedWithIdAndRent /\ EmittedWithAddress

(***************************************************************************)
(* Catalog runs: an upload directory and a Drive folder that lose files,   *)
(* a Drive that answers or does not, rescans and resets                    *)
(***************************************************************************)

ZhongShanQu == << "zhong", "shan", "qu" >>    \* 中山區

\* 新北市_中和區_公寓_套房_2604.csv, in the upload directory from the start
LocalPartition ==
    File(PartitionFileName(XinBeiShi, ZhongHeQu, Week2604), << Row1North >>)

\* notes.txt: not a .csv file
LocalNotes ==
    File(<< "n", "o", "t", "e", "s", ".", "t", "x", "t" >>, << >>)

\* 公寓_套房_2605.csv: the name two Drive folders use
SharedName ==
    Concat(<< GongYu, Underscore, TaoFang, Underscore, Week2605, DotCsv >>)

\* 台北市/中山區/公寓_套房_2605.csv
RemoteTaipei ==
    [ id |-> << "f", "1" >>, path |-> << TaiBeiShiSimp, ZhongShanQu >>,
      name |-> SharedName, rows |-> << Row1North >>, blank_lines |-> 0,
      readable |-> TRUE ]

\* 基隆市/中山區/公寓_套房_2605.csv
RemoteKeelung ==
    [ id |-> << "f", "2" >>, path |-> << JiLongShi, ZhongShanQu >>,
      name |-> SharedName, rows |-> << Row2Nowhere, Row4Origin >>,
      blank_lines |-> 0, readable |-> TRUE ]

\* 新北市/永和區/新北市_永和區_公寓_套房_2603.csv, whose text ends with a
\* blank line
RemoteBlankLine ==
    [ id |-> << "f", "3" >>, path |-> << XinBeiShi, YongHeQu >>,
      name |-> PartitionFileName(XinBeiShi, YongHeQu, Week2603),
      rows |-> << Row4Origin >>, blank_lines |-> 1, readable |-> TRUE ]

\* 新北市/新北市_中和區_公寓_套房_2605.csv, which pd.read_csv rejects
RemoteUnreadable ==
    [ id |-> << "f", "4" >>, path |-> << XinBeiShi >>,
      name |-> PartitionFileName(XinBeiShi, ZhongHeQu, Week2605),
      rows |-> << >>, blank_lines |-> 0, readable |-> FALSE ]

CatalogUpload == << LocalPartition, LocalNotes >>

CatalogDrive == << RemoteTaipei, RemoteKeelung, RemoteBlankLine >>

\* s without its i-th element
Without(s, i) == SubSeq(s, 1, i - 1) \o SubSeq(s, i + 1, Len(s))

\* a fresh deployment before startup_event: both tables empty, the Drive
\* folder found by init_google_drive
InitCatalog ==
    /\ upload = CatalogUpload
    /\ drive \in [online : BOOLEAN, files : {CatalogDrive}]
    /\ drive_available = TRUE
    /\ csv_index = << >>
    /\ versions = {}
    /\ request = NoRequest
    /\ loaded = << >>
    /\ reconciled = << >>
    /\ response = NoResponse
    /\ prior_loads = NoLoads
    /\ FilenameIdle
    /\ CoordinateIdle
    /\ ScanIdle
    /\ ClockIdle

\* POST /api/admin/rescan-csv (lines 1285-1307); startup_event runs the same
\* scan
rescan_csv ==
    /\ scan_available_csv_files
    /\ admin' = [message |-> "rescanned", indexed_files |-> Len(csv_index')]
    /\ UNCHANGED << drive_available, request, loaded, reconciled, response,
                    filename, parts, parsed, coord_str, coord, drive, scan,
                    snapshot, clockVars, prior_loads >>

\* POST /api/admin/reset-database with the right password: both tables are
\* emptied, then scanned into
reset_database ==
    /\ ScanFrom({}, ScanResult(upload))
    /\ admin' = [message |-> "reset", indexed_files |-> 0]
    /\ UNCHANGED << drive_available, request, loaded, reconciled, response,
                    filename, parts, parsed, coord_str, coord, drive, scan,
                    snapshot, clockVars, prior_loads >>

\* a .csv file leaves the upload directory
RemoveLocal ==
    /\ \E i \in 1..Len(upload) :
           EndsWith(upload[i].name, DotCsv) /\ upload' = Without(upload, i)
    /\ rescans' = 0
    /\ UNCHANGED << csv_index, versions, drive_available, request, loaded,
                    reconciled, response, filename, parts, parsed, coord_str,
                    coord, drive, scan, snapshot, admin, clockVars, prior_loads,
                    cache, fetches >>

\* a file leaves the Drive folder
RemoveRemote ==
    /\ \E i \in 1..Len(drive.files) :
           drive' = [drive EXCEPT !.files = Without(drive.files, i)]
    /\ rescans' = 0
    /\ UNCHANGED << upload, csv_index, versions, drive_available, request,
                    loaded, reconciled, response, filename, parts, parsed,
                    coord_str, coord, scan, snapshot, admin, clockVars, prior_loads,
                    cache, fetches >>

NextCatalog ==
    \/ rescan_csv
    \/ reset_database
    \/ RemoveLocal
    \/ RemoveRemote

SpecCatalog == InitCatalog /\ [][NextCatalog]_vars

(***************************************************************************)
(* Properties of the catalog runs                                          *)
(***************************************************************************)

\* the .csv files of the upload directory
LocalSources == SelectSeq(upload, LAMBDA f : EndsWith(f.name, DotCsv))

\* the .csv files of the Drive folder, when the Drive answers
RemoteSources ==
    IF drive_available /\ drive.online
    THEN SelectSeq(drive.files, LAMBDA f : EndsWith(f.name, DotCsv))
    ELSE << >>

\* the descriptors of a file name, and those of a Drive file id
DescriptorsNamed(name) == SelectSeq(csv_index, LAMBDA d : d.filename = name)
DescriptorsOfId(id) == SelectSeq(csv_index, LAMBDA d : d.file_id = id)

\* every descriptor is that of a file of the upload directory or of the Drive
NoStaleDescriptor ==
    \A k \in 1..Len(csv_index) :
        \/ \E i \in 1..Len(LocalSources) :
               LocalSources[i].name = csv_index[k].filename
        \/ \E j \in 1..Len(RemoteSources) :
               RemoteSources[j].id = csv_index[k].file_id

\* every file of the upload directory has one descriptor
OnePerLocalSource ==
    \A i \in 1..Len(LocalSources) :
        Len(DescriptorsNamed(LocalSources[i].name)) = 1

\* every file of the Drive folder has one descriptor
OnePerRemoteSource ==
    \A j \in 1..Len(RemoteSources) :
        Len(DescriptorsOfId(RemoteSources[j].id)) = 1

\* C12, as stated: after a scan the catalog holds exactly one descriptor for
\* every source file that can be reached, local or remote, and none for a
\* source that cannot, whatever it held before
C12_OneDescriptorPerSource ==
    rescans >= 1 => NoStaleDescriptor /\ OnePerLocalSource /\ OnePerRemoteSource

\* the descriptors of an index, as a set
DescriptorSet(index) == {index[k] : k \in 1..Len(index)}

\* C13, as stated: a scan that follows a scan, the sources unchanged in
\* between, leaves the same set of descriptors, record counts included
C13_RescanIdempotent ==
    [][rescans' = 2 => DescriptorSet(csv_index') = DescriptorSet(csv_index)]_vars

\* C19: every week id of a cataloged source is registered as a version, and
\* a step that is not a full reset never takes a registered week id away,
\* also when no source of that week is left
C19_VersionsMonotone ==
    /\ [](WeekIdsOf(csv_index) \subseteq versions)
    /\ [][versions \subseteq versions' \/ admin'.message = "reset"]_vars

\* after a scan, a week is registered that no cataloged source has any more
C19_Witness ==
    /\ rescans >= 1
    /\ \E w \in versions : w \notin WeekIdsOf(csv_index)


(***************************************************************************)
(* Load runs: 中山區 files of two cities, queried by city, building type    *)
(* and category                                                            *)
(***************************************************************************)

\* a complete row of listing n
LoadRow(n) ==
    [ pid |-> Num(n), address |-> Str(RoadText), rent |-> Num(100),
      area |-> Num(100), room_type |-> Str(TaoFang),
      lat |-> Num(NorthPoint.lat), lng |-> Num(NorthPoint.lng), coord |-> NaN ]

\* 台北市_中山區_公寓_套房_2605.csv, listing 1
LoadTaipei ==
    File(PartitionFileName(TaiBeiShiSimp, ZhongShanQu, Week2605), << LoadRow(1) >>)

\* 基隆市_中山區_公寓_套房_2605.csv, listing 2
LoadKeelung ==
    File(PartitionFileName(JiLongShi, ZhongShanQu, Week2605), << LoadRow(2) >>)

\* 臺北市_中山區_電梯大樓_住家_2605.csv, listing 3
LoadTaipeiHome ==
    File(Concat(<< TaiBeiShiTrad, Underscore, ZhongShanQu, Underscore,
                   DianTiDaLou, Underscore, ZhuJia, Underscore, Week2605,
                   DotCsv >>),
         << LoadRow(3) >>)

LoadFiles == << LoadTaipei, LoadKeelung, LoadTaipeiHome >>

\* the directories of the load runs: some of the three files, in order
LoadDirectories ==
    { SelectSeq(LoadFiles, LAMBDA f : f \in S) :
        S \in (SUBSET {LoadFiles[i] : i \in 1..3}) \ {{}} }

\* a query of 中山區 by city, building type and category
LoadRequest(city, building_type, property_category) ==
    [ ReconRequest(<< >>) EXCEPT !.district = ZhongShanQu, !.city = city,
                                !.building_type = building_type,
                                !.property_category = property_category ]

LoadRequests ==
    { LoadRequest(c, b, p) :
        c \in {<< >>, TaiBeiShiSimp, TaiBeiShiTrad, JiLongShi},
        b \in {<< >>, QuanBu, AllText, GongYu},
        p \in {<< >>, QuanBu, AllText, TaoFang} }

InitLoad ==
    /\ \E dir \in LoadDirectories : Started(dir, FALSE)
    /\ FilenameIdle
    /\ CoordinateIdle
    /\ ScanIdle
    /\ ClockIdle

AnalysisLoad == \E q \in LoadRequests : analysis_v4(q)

NextLoad == AnalysisLoad

SpecLoad == InitLoad /\ [][NextLoad]_vars

(***************************************************************************)
(* Properties of the load runs                                             *)
(***************************************************************************)

\* the property_ids of a list of records
IdsOf(records) == {records[k].property_id : k \in 1..Len(records)}

\* the descriptors of the sources a listing id comes from
SourcesOfId(id) ==
    SelectSeq(csv_index, LAMBDA d :
        \E i \in 1..Len(upload) :
            /\ upload[i].name = d.filename
            /\ \E j \in 1..Len(upload[i].rows) : IdOf(upload[i].rows[j]) = id)

\* the record comes from a source cataloged under the city or an alias of it
FromCity(p, city) ==
    \E k \in 1..Len(SourcesOfId(p.property_id)) :
        SourcesOfId(p.property_id)[k].city \in normalize_city_name(city)

\* C14, as stated: a load for a city returns only records of sources
\* cataloged under that city or a spelling alias of it
C14_OnlyRequestedCity ==
    request.served =>
        \A k \in 1..Len(loaded) : FromCity(loaded[k], QueryCity(request))

\* a sentinel that stands for every value, read as no filter
Omitted(v) == IF v \in {AllText, QuanBu} THEN << >> ELSE v

\* C15, as stated: a load with 'all' or '全部' for the building type or the
\* category returns the sources the load returns with that dimension omitted
C15_SentinelIsNoFilter ==
    request.served =>
        IdsOf(loaded) =
            IdsOf(load_csv_data(QueryCity(request), QueryDistrict(request),
                                Omitted(request.building_type),
                                Omitted(LoadCategory(request)),
                                QueryWeek(request)))


(***************************************************************************)
(* Stale-catalog runs: files leave the upload directory after the scan     *)
(***************************************************************************)

\* 桃園市_中山區_公寓_套房_2605.csv: listing 9 with a text rent, then listing 4
LoadBroken ==
    File(PartitionFileName(TaoYuanShi, ZhongShanQu, Week2605),
         << RowTextRent, LoadRow(4) >>)

StaleDirectory == LoadFiles \o << LoadBroken >>

StaleRequests ==
    { LoadRequest(<< >>, b, p) :
        b \in {<< >>, GongYu, DianTiDaLou}, p \in {<< >>, TaoFang, ZhuJia} }

InitStale ==
    /\ Started(StaleDirectory, FALSE)
    /\ FilenameIdle
    /\ CoordinateIdle
    /\ ScanIdle
    /\ ClockIdle

AnalysisStale == \E q \in StaleRequests : analysis_v4(q)

NextStale == AnalysisStale \/ RemoveLocal

SpecStale == InitStale /\ [][NextStale]_vars

(***************************************************************************)
(* Properties of the stale-catalog runs                                    *)
(***************************************************************************)

\* the descriptors a request's load matches
MatchedSources(q) ==
    SelectSeq(csv_index, LAMBDA d :
        MatchesLocalQuery(d, QueryDistrict(q), q.building_type,
                          LoadCategory(q), QueryWeek(q)))

\* the file of the descriptor is there and every row of it can be normalized
Readable(d) ==
    \E i \in 1..Len(upload) :
        /\ upload[i].name = d.filename
        /\ \A j \in 1..Len(upload[i].rows) : ~RowRaises(upload[i].rows[j])

\* the listing ids of the matched sources that can be read
ReadableIds(q) ==
    UNION { {IdOf(upload[i].rows[j]) : j \in 1..Len(upload[i].rows)} :
              i \in {i \in 1..Len(upload) :
                        \E k \in 1..Len(MatchedSources(q)) :
                            /\ MatchedSources(q)[k].filename = upload[i].name
                            /\ Readable(MatchedSources(q)[k])} }

\* C17: a load returns the records of every matched source that can be read
\* and nothing of a matched source that cannot, and the query is answered
C17_FailureIsolated ==
    [][upload' = upload =>
           /\ IdsOf(loaded') = ReadableIds(request')
           /\ response'.status = "success"]_vars

\* a load answered from two matched sources while a third one was gone and
\* a fourth could not be normalized
C17_Witness ==
    /\ request.served
    /\ \E k \in 1..Len(MatchedSources(request)) :
           Len(FilesNamed(MatchedSources(request)[k].filename)) = 0
    /\ \E k \in 1..Len(MatchedSources(request)) :
           /\ Len(FilesNamed(MatchedSources(request)[k].filename)) = 1
           /\ ~Readable(MatchedSources(request)[k])
    /\ IdsOf(loaded) = ReadableIds(request)
    /\ Cardinality(IdsOf(loaded)) = 2


(***************************************************************************)
(* Row errors, in the row runs                                             *)
(***************************************************************************)

\* the row can be normalized and has an id, an address and a positive rent
RowValid(row) ==
    /\ ~RowRaises(row)
    /\ ~IsNa(row.pid)
    /\ HasAddress(row)
    /\ ~IsNa(row.rent) /\ row.rent.n > 0

\* C18, as stated: a row that cannot be normalized is skipped, every valid
\* row of the same source is returned, and the query is answered
C18_RowErrorsIsolated ==
    request.served =>
        /\ response.status = "success"
        /\ \A j \in 1..Len(FileRows) :
               RowValid(FileRows[j]) => IdOf(FileRows[j]) \in IdsOf(loaded)


(***************************************************************************)
(* Scan runs: scan_available_csv_files statement by statement on its own   *)
(* connection, with readers of csv_index on theirs                         *)
(*                                                                         *)
(* csv_index is the table as committed.  scan.work is the table (and the   *)
(* upload directory and the week ids met) as the scan's transaction has    *)
(* them, scan.before the table as the scan found it, scan.listed the       *)
(* directory as os.listdir gave it.  Files downloaded during the Drive     *)
(* pass are in the upload directory at once.                               *)
(***************************************************************************)

\* what the scan's statements leave in the committed table, as it would be
\* with a commit after every statement
AutocommitWrite(committed, working) == working

\* lines 593-733: no commit between the DELETE and line 734, so the
\* statements of the scan leave the committed table as it is
UncommittedWrite(committed, working) == committed

\* the number of statements of a scan: one per directory entry listed, one
\* per Drive file listed
ScanSteps == Len(scan.listed) + Len(list_google_drive_files)

\* the scan's transaction after its next statement, the step-th
WorkAfter(step) ==
    IF step <= Len(scan.listed)
    THEN IF EndsWith(scan.listed[step].name, DotCsv)
         THEN [ scan.work EXCEPT
                  !.index = @ \o << LocalDescriptor(scan.listed[step]) >>,
                  !.week_ids = @ \cup ({LocalDescriptor(scan.listed[step]).week_id}
                                           \ {<< >>}) ]
         ELSE scan.work
    ELSE SyncFile(scan.work,
                  list_google_drive_files[step - Len(scan.listed)],
                  SelectSeq(scan.work.dir, LAMBDA l :
                      l.name = list_google_drive_files[step - Len(scan.listed)].name))

\* lines 588-599: the connection is opened, DELETE FROM csv_index runs in
\* its transaction, the directory is listed
BeginScan ==
    /\ ~scan.running
    /\ scan' = [ running |-> TRUE, step |-> 0, before |-> csv_index,
                 listed |-> upload,
                 work |-> [index |-> << >>, dir |-> upload, week_ids |-> {},
                           cache |-> cache, fetches |-> << >>] ]
    /\ csv_index' = UncommittedWrite(csv_index, << >>)
    /\ UNCHANGED << upload, versions, drive_available, request, loaded,
                    reconciled, response, filename, parts, parsed, coord_str,
                    coord, drive, rescans, snapshot, admin, clockVars, prior_loads,
                    cache, fetches >>

\* lines 601-622 and 642-712: the next file is indexed
ScanStep ==
    /\ scan.running
    /\ scan.step < ScanSteps
    /\ scan' = [scan EXCEPT !.step = @ + 1, !.work = WorkAfter(scan.step + 1)]
    /\ upload' = scan'.work.dir
    /\ cache' = scan'.work.cache
    /\ fetches' = scan'.work.fetches
    /\ csv_index' = UncommittedWrite(csv_index, scan'.work.index)
    /\ UNCHANGED << versions, drive_available, request, loaded, reconciled,
                    response, filename, parts, parsed, coord_str, coord,
                    drive, rescans, snapshot, admin, clockVars, prior_loads >>

\* lines 727-735 and 1289-1307: the versions are registered, the transaction
\* is committed, rescan_csv answers
CommitScan ==
    /\ scan.running
    /\ scan.step = ScanSteps
    /\ csv_index' = scan.work.index
    /\ versions' = RegisterVersions(versions, scan.work.week_ids)
    /\ rescans' = ScansInARow(rescans)
    /\ scan' = NoScan
    /\ admin' = [message |-> "rescanned", indexed_files |-> Len(scan.work.index)]
    /\ UNCHANGED << upload, drive_available, request, loaded, reconciled,
                    response, filename, parts, parsed, coord_str, coord,
                    drive, snapshot, clockVars, prior_loads, cache, fetches >>

\* the file names of a list of descriptors
FilenamesOf(index) == [k \in 1..Len(index) |-> index[k].filename]

\* lines 745-770: the source lookup of load_csv_data by district, on a
\* connection of its own
LookupIn(index, district) ==
    FilenamesOf(SelectSeq(index, LAMBDA d :
        MatchesLocalQuery(d, district, << >>, << >>, << >>)))

ReadSources ==
    /\ \E district \in {<< >>, ZhongShanQu} :
           snapshot' = [ taken |-> TRUE, during |-> scan.running,
                         reader |-> "load_csv_data", district |-> district,
                         filenames |-> LookupIn(csv_index, district),
                         week_ids |-> << >> ]
    /\ UNCHANGED << upload, csv_index, versions, drive_available, request,
                    loaded, reconciled, response, filename, parts, parsed,
                    coord_str, coord, drive, rescans, scan, admin, clockVars, prior_loads,
                    cache, fetches >>

\* lines 816-827: get_all_week_ids, on a connection of its own
ReadWeekIds ==
    /\ snapshot' = [ taken |-> TRUE, during |-> scan.running,
                     reader |-> "get_all_week_ids", district |-> << >>,
                     filenames |-> << >>, week_ids |-> get_all_week_ids ]
    /\ UNCHANGED << upload, csv_index, versions, drive_available, request,
                    loaded, reconciled, response, filename, parts, parsed,
                    coord_str, coord, drive, rescans, scan, admin, clockVars, prior_loads,
                    cache, fetches >>

NextScan == BeginScan \/ ScanStep \/ CommitScan \/ ReadSources \/ ReadWeekIds

SpecScan == InitCatalog /\ [][NextScan]_vars

(***************************************************************************)
(* Properties of the scan runs                                             *)
(***************************************************************************)

\* the catalog a scan in progress will commit
CatalogAfter == ScanResult(scan.listed).index

\* what a reader gets from a whole catalog
ReadsWhole(snap, index) ==
    IF snap.reader = "load_csv_data"
    THEN snap.filenames = LookupIn(index, snap.district)
    ELSE snap.week_ids = SortWeeksDesc(WeekIdsOf(index))

\* C16: a read of the catalog while a scan is in progress returns what the
\* catalog before the scan holds, or what the catalog after the scan holds
C16_ReadersSeeWholeCatalog ==
    [][(snapshot' # snapshot /\ scan.running) =>
           \/ ReadsWhole(snapshot', scan.before)
           \/ ReadsWhole(snapshot', CatalogAfter)]_vars

\* a reader served during a rescan that has emptied and partly repopulated
\* the table in its transaction, over a catalog that was not empty
C16_Witness ==
    /\ snapshot.taken /\ snapshot.during
    /\ scan.running
    /\ scan.before # << >>
    /\ scan.work.index # << >>
    /\ scan.work.index # scan.before
    /\ ReadsWhole(snapshot, scan.before)
    /\ ~ReadsWhole(snapshot, scan.work.index)


(***************************************************************************)
(* Week runs: get_week_id day after day                                    *)
(***************************************************************************)

\* the years of the week runs, of one century
FirstYear == 2024

LastYear == 2027

\* the day after d
NextDay(d) ==
    IF d.yday < DaysInYear(d.year) THEN [d EXCEPT !.yday = @ + 1]
    ELSE [year |-> d.year + 1, yday |-> 1]

InitWeek ==
    /\ Started(<< >>, FALSE)
    /\ FilenameIdle
    /\ CoordinateIdle
    /\ ScanIdle
    /\ date = [year |-> FirstYear, yday |-> 1]
    /\ week_token = WeekToken(date)

\* get_week_id(date) a day later
WeekOfNextDay ==
    /\ NextDay(date).year <= LastYear
    /\ date' = NextDay(date)
    /\ week_token' = WeekToken(date')
    /\ UNCHANGED << upload, csv_index, versions, drive_available, request,
                    loaded, reconciled, response, filename, parts, parsed,
                    coord_str, coord, scanVars, prior_loads >>

NextWeek == WeekOfNextDay

SpecWeek == InitWeek /\ [][NextWeek]_vars

(***************************************************************************)
(* Properties of the week runs                                             *)
(***************************************************************************)

\* a <= b for two strings of digits of one length, character by character
LexLeq(a, b) ==
    \/ a = b
    \/ \E i \in 1..Len(a) :
           /\ \A k \in 1..(i - 1) : a[k] = b[k]
           /\ DigitValue(a[i]) < DigitValue(b[i])

\* C20, as stated: the token is four digits, and the token of a date is not
\* below the token of the day before it, within the century
C20_TokensSortChronologically ==
    /\ [](Len(week_token) = 4 /\ \A i \in 1..4 : IsDigit(week_token[i]))
    /\ [][LexLeq(week_token, week_token')]_vars


(***************************************************************************)
(* The lookback window, in the reconciliation runs                         *)
(***************************************************************************)

\* the prior weeks of the catalog whose record set holds the id
WeeksHolding(id, w) == {v \in PriorWeeks(w) : id \in IdsOfWeek(v)}

\* the oldest of them
OldestWeekHolding(id, w) ==
    CHOOSE v \in WeeksHolding(id, w) :
        \A u \in WeeksHolding(id, w) : DecimalValue(v) <= DecimalValue(u)

\* the records of the result tagged 'active'
ActiveRecords == SelectSeq(reconciled, LAMBDA p : p.status = "active")

\* C21, as stated: reconciling week W, every record tagged 'active' has for
\* first_seen_week the oldest week of the lookback window whose record set
\* holds its property_id
C21_FirstSeenIsOldest ==
    \A w \in AllWeeks :
        ReconciledWithHistory(w) =>
            \A i \in 1..Len(ActiveRecords) :
                /\ WeeksHolding(ActiveRecords[i].property_id, w) # {}
                /\ ActiveRecords[i].first_seen_week =
                       OldestWeekHolding(ActiveRecords[i].property_id, w)


(***************************************************************************)
(* Window runs: a partition of more weeks than the lookback window holds   *)
(***************************************************************************)

\* the weeks of the partition are 2601 .. 26nn for nn = WindowLast
WindowLast == 12

\* the weeks that may differ from the others in a directory
MaxOddWeeks == 2

\* the token of week n of 2026
Week26(n) == << "2", "6" >> \o Pad2(n)

\* the file of week n: listing 1 when the week holds it, listing 2 otherwise
WindowFile(n, holds) ==
    File(PartitionFileName(XinBeiShi, ZhongHeQu, Week26(n)),
         << IF holds THEN LoadRow(1) ELSE LoadRow(2) >>)

\* the directory in which the weeks of S, and always the last week, hold
\* listing 1
WindowDirectory(S) ==
    [n \in 1..WindowLast |-> WindowFile(n, n \in S \/ n = WindowLast)]

\* the sets of prior weeks that have at most MaxOddWeeks weeks, or lack at
\* most MaxOddWeeks weeks
WindowHoldings ==
    { S \in SUBSET (1..(WindowLast - 1)) :
        \/ Cardinality(S) <= MaxOddWeeks
        \/ Cardinality(S) >= WindowLast - 1 - MaxOddWeeks }

\* the weeks asked for: the latest by default, the one before it, and week 3
WindowRequests ==
    { [ReconRequest(w) EXCEPT !.distance_max = 20000000] :
        w \in {<< >>, Week26(WindowLast - 1), Week26(3)} }

InitWindow ==
    /\ \E S \in WindowHoldings : Started(WindowDirectory(S), FALSE)
    /\ FilenameIdle
    /\ CoordinateIdle
    /\ ScanIdle
    /\ ClockIdle

AnalysisWindow == \E q \in WindowRequests : analysis_v4(q)

NextWindow == AnalysisWindow

SpecWindow == InitWindow /\ [][NextWindow]_vars

(***************************************************************************)
(* Properties of the window runs                                           *)
(***************************************************************************)

\* the number of the week served
ServedWeek == CHOOSE n \in 1..WindowLast : Week26(n) = response.week_id

\* the lookback window of week n: the ten weeks of the catalog before it
WindowOf(n) == {m \in 1..(n - 1) : n - m <= 10}

\* the weeks of the window whose record set holds the id
WindowHolding(id, n) == {m \in WindowOf(n) : id \in IdsOfWeek(Week26(m))}

\* C22: every record tagged 'active' has weeks_active = 1 + the number of
\* window weeks, consecutive or not, whose record set holds its id, which
\* is between 2 and 11
C22_WeeksActiveCountsWindow ==
    request.served =>
        \A i \in 1..Len(ActiveRecords) :
            /\ ActiveRecords[i].weeks_active =
                   1 + Cardinality(WindowHolding(ActiveRecords[i].property_id,
                                                 ServedWeek))
            /\ ActiveRecords[i].weeks_active >= 2
            /\ ActiveRecords[i].weeks_active <= 11

\* week 12 served, its listing held by all eleven prior weeks and counted 11
C22_Witness ==
    /\ request.served
    /\ ServedWeek = WindowLast
    /\ \A m \in 1..(WindowLast - 1) : IntToStr(1) \in IdsOfWeek(Week26(m))
    /\ \E i \in 1..Len(ActiveRecords) : ActiveRecords[i].weeks_active = 11

\* week 12 served, its listing held by weeks 11 and 9 only and counted 3
C22_WitnessGap ==
    /\ request.served
    /\ ServedWeek = WindowLast
    /\ WindowHolding(IntToStr(1), WindowLast) = {9, 11}
    /\ \E i \in 1..Len(ActiveRecords) : ActiveRecords[i].weeks_active = 3


(***************************************************************************)
(* Vanished records, in the reconciliation runs                            *)
(***************************************************************************)

\* the ids of the weeks older than W-1 that neither W nor W-1 holds
LongGoneIds(w) ==
    OlderIds(w) \ (IdsOfWeek(w) \cup IdsOfWeek(PreviousWeek(w)))

\* the records of the result tagged 'inactive'
InactiveRecords == SelectSeq(reconciled, LAMBDA p : p.status = "inactive")

\* C23: reconciling week W, a listing that neither W nor the most recent
\* prior week holds is not in the result, also when an older week holds it,
\* and no 'inactive' record carries an id of W's record set
C23_VanishedFromLastWeekOnly ==
    \A w \in AllWeeks :
        ReconciledWithHistory(w) =>
            /\ \A i \in 1..Len(reconciled) :
                   reconciled[i].property_id
                       \in IdsOfWeek(w) \cup IdsOfWeek(PreviousWeek(w))
            /\ \A i \in 1..Len(InactiveRecords) :
                   InactiveRecords[i].property_id \notin IdsOfWeek(w)

\* week 2605 reconciled after week 2604, both with records, and a listing
\* of week 2603 in neither
C23_Witness ==
    /\ ReconciledWithHistory(Week2605)
    /\ PreviousWeek(Week2605) = Week2604
    /\ IdsOfWeek(Week2604) # {}
    /\ LongGoneIds(Week2605) # {}
    /\ reconciled # << >>
    /\ \A i \in 1..Len(reconciled) :
           reconciled[i].property_id \notin LongGoneIds(Week2605)


(***************************************************************************)
(* History-failure runs: three weeks of one partition, files of which are  *)
(* gone or cannot be normalized when a week is reconciled                  *)
(***************************************************************************)

\* a file that raises when it is processed: a text rent, then listing 1
BrokenRows == << RowTextRent, Row1North >>

\* what a prior week's file holds at the scan
PriorContents == {<< Row1North >>, << Row2Nowhere >>, BrokenRows}

\* what the file of week 2605 holds
LatestContents == {<< Row1North >>, << Row1North, Row2Nowhere >>}

GoneDirectories ==
    { << File(PartitionFileName(XinBeiShi, ZhongHeQu, Week2603), r3),
         File(PartitionFileName(XinBeiShi, ZhongHeQu, Week2604), r4),
         File(PartitionFileName(XinBeiShi, ZhongHeQu, Week2605), r5) >> :
        r3 \in PriorContents, r4 \in PriorContents, r5 \in LatestContents }

InitGone ==
    /\ \E dir \in GoneDirectories : Started(dir, FALSE)
    /\ FilenameIdle
    /\ CoordinateIdle
    /\ ScanIdle
    /\ ClockIdle

AnalysisGone == \E w \in {<< >>, Week2604} : analysis_v4(ReconRequest(w))

NextGone == AnalysisGone \/ RemoveLocal

SpecGone == InitGone /\ [][NextGone]_vars

(***************************************************************************)
(* Properties of the history-failure runs                                  *)
(***************************************************************************)

\* the week's file is in the directory and every row of it can be normalized
WeekLoads(w) ==
    /\ RowsOfWeek(w) # << >>
    /\ \A j \in 1..Len(RowsOfWeek(w)) : ~RowRaises(RowsOfWeek(w)[j])

\* the ids a load of the week gives: none when the load fails
LoadedIdsOfWeek(w) == IF WeekLoads(w) THEN IdsOfWeek(w) ELSE {}

\* the cataloged weeks before w, their files there or not
CatalogedBefore(w) ==
    {v \in WeekIdsOf(csv_index) : DecimalValue(v) < DecimalValue(w)}

\* the prior weeks that load and hold the id
LoadedWeeksHolding(id, w) ==
    {v \in CatalogedBefore(w) : id \in LoadedIdsOfWeek(v)}

\* a prior week of w is cataloged and fails to load
PriorWeekFails(w) == \E v \in CatalogedBefore(w) : ~WeekLoads(v)

\* the status of the result's records of week w for the id follows from the
\* prior weeks that load
StatusFromLoadedWeeks(records, id, w) ==
    /\ \E i \in 1..Len(records) :
           records[i].property_id = id /\ records[i].status # "inactive"
    /\ \A i \in 1..Len(records) :
           (records[i].property_id = id /\ records[i].status # "inactive") =>
               /\ records[i].weeks_active
                      = 1 + Cardinality(LoadedWeeksHolding(id, w))
               /\ records[i].status
                      = IF LoadedWeeksHolding(id, w) = {} THEN "new" ELSE "active"

C25_BoundedPriorLoads ==
    request.served =>
        /\ response.status = "success"
        /\ prior_loads.ids <= 10
        /\ prior_loads.ids = Cardinality(WindowOf(ServedWeek))
        /\ prior_loads.full <= 1

\* week 12 of twelve reconciled: ten id loads for eleven prior weeks, and the
\* full load of week 11, which holds a listing that week 12 lacks
C25_Witness ==
    /\ request.served
    /\ ServedWeek = WindowLast
    /\ Cardinality({m \in 1..WindowLast : m < ServedWeek}) = 11
    /\ prior_loads = [ids |-> 10, full |-> 1]
    /\ \E i \in 1..Len(InactiveRecords) :
           InactiveRecords[i].property_id = IntToStr(2)


(***************************************************************************)
(* Path runs: one Drive file under city/district folders, synchronized     *)
(* into the upload directory and then loaded                                *)
(***************************************************************************)

\* the folders the Drive file may lie under
PathFolders ==
    { << TaiBeiShiSimp, ZhongShanQu >>, << JiLongShi, ZhongShanQu >>,
      << XinBeiShi >> }

\* the names it may have: 公寓_套房_2605.csv, 台北市_中山區_公寓_套房_2605.csv
\* and 新北市_永和區_公寓_套房_2605.csv
PathNames ==
    { SharedName, PartitionFileName(TaiBeiShiSimp, ZhongShanQu, Week2605),
      PartitionFileName(XinBeiShi, YongHeQu, Week2605) }

PathDriveFiles ==
    { [ id |-> << "p", "1" >>, path |-> path, name |-> name, rows |-> rows,
        blank_lines |-> 0, readable |-> TRUE ] :
        path \in PathFolders, name \in PathNames,
        rows \in RowsUpTo({LoadRow(1), LoadRow(2)}, MaxRows) }

\* a fresh deployment: nothing uploaded, one file on the Drive
InitPath ==
    /\ upload = << >>
    /\ \E f \in PathDriveFiles : drive = [online |-> TRUE, files |-> << f >>]
    /\ drive_available = TRUE
    /\ csv_index = << >>
    /\ versions = {}
    /\ request = NoRequest
    /\ loaded = << >>
    /\ reconciled = << >>
    /\ response = NoResponse
    /\ prior_loads = NoLoads
    /\ FilenameIdle
    /\ CoordinateIdle
    /\ ScanIdle
    /\ ClockIdle

\* queries by district, the week 2605
PathRequests ==
    { [ReconRequest(Week2605) EXCEPT !.district = d, !.distance_max = 20000000] :
        d \in {ZhongShanQu, YongHeQu} }

AnalysisPath == \E q \in PathRequests : analysis_v4(q)

NextPath == rescan_csv \/ AnalysisPath

SpecPath == InitPath /\ [][NextPath]_vars

(***************************************************************************)
(* Properties of the path runs                                             *)
(***************************************************************************)

\* the Drive file of the runs, and the city and district of its path
PathFile == drive.files[1]

PathCity == PathFile.path[1]

PathDistrict == IF Len(PathFile.path) >= 2 THEN PathFile.path[2] ELSE << >>

\* the descriptor of the Drive file carries the city of the path, and the
\* district of the path when the path has one
DescriptorFollowsPath ==
    \A k \in 1..Len(csv_index) :
        csv_index[k].file_id = PathFile.id =>
            /\ csv_index[k].city = PathCity
            /\ PathDistrict # << >> => csv_index[k].district = PathDistrict

\* the records loaded from the file were made with the city and district of
\* the path: the address is the row's address behind them
RecordsFollowPath ==
    \A i \in 1..Len(loaded) :
        loaded[i].address
            = EnrichAddress(RoadText, PathCity,
                            IF PathDistrict # << >> THEN PathDistrict
                            ELSE parse_csv_filename(PathFile.name).district)

\* C26, as stated: for a source reached through city/district/filename, the
\* city and district of the path come before those of the file name in its
\* descriptor and in the records loaded from it
C26_PathTakesPrecedence ==
    /\ rescans >= 1 => DescriptorFollowsPath
    /\ request.served => RecordsFollowPath


(***************************************************************************)
(* Loose-coordinate runs: text made of decimal numbers and separators      *)
(***************************************************************************)

\* 25.03, 121.46 and 200 as text
LatitudeDecimal == << "2", "5", ".", "0", "3" >>
LongitudeDecimal == << "1", "2", "1", ".", "4", "6" >>
OutOfRangeDecimal == << "2", "0", "0" >>

LoosePieces ==
    { LatitudeDecimal, LongitudeDecimal, OutOfRangeDecimal, << "," >>,
      << " " >>, << "x" >> }

LooseTexts == {Concat(ps) : ps \in SeqsUpTo(LoosePieces, MaxPieces)}

InitLoose ==
    /\ Started(<< >>, FALSE)
    /\ FilenameIdle
    /\ coord_str \in LooseTexts
    /\ coord = NoCoordinate
    /\ ScanIdle
    /\ ClockIdle

SpecLoose == InitLoose /\ [][NextCoord]_vars

(***************************************************************************)
(* Properties of the loose-coordinate runs                                 *)
(***************************************************************************)

\* s[i..j] is a number, digits or digits, a point and digits, with no digit
\* and no point next to it
IsNumberAt(s, i, j) ==
    /\ 1 <= i /\ i <= j /\ j <= Len(s)
    /\ IsSeconds(s, i, j)
    /\ i > 1 => ~(IsDigit(s[i - 1]) \/ s[i - 1] = ".")
    /\ j < Len(s) => ~(IsDigit(s[j + 1]) \/ s[j + 1] = ".")

\* the numeric substrings of the text, as <<first, last>>
NumbersIn(s) ==
    {r \in (1..Len(s)) \X (1..Len(s)) : IsNumberAt(s, r[1], r[2])}

\* the position of the point of s[i..j], or j + 1 without a point
PointOf(s, i, j) ==
    IF \E k \in i..j : s[k] = "." THEN CHOOSE k \in i..j : s[k] = "."
    ELSE j + 1

\* the number s[i..j] in hundredths, its first two decimals counted
NumberHundredths(s, r) ==
    SecondsValue(SubSeq(s, r[1], PointOf(s, r[1], r[2]) - 1),
                 SubSeq(s, PointOf(s, r[1], r[2]) + 1, r[2]))

\* the number is at most limit degrees; a number of more than three integer
\* digits is above every limit unless it is all zeros
WithinDegrees(s, r, limit) ==
    /\ PointOf(s, r[1], r[2]) - r[1] <= 3
    /\ NumberHundredths(s, r) <= 100 * limit

\* two numeric substrings, the first a valid latitude and the second a valid
\* longitude, wherever they stand in the text
ValidLoosePairs(s) ==
    {x \in NumbersIn(s) \X NumbersIn(s) :
        /\ x[1] # x[2]
        /\ WithinDegrees(s, x[1], 90)
        /\ WithinDegrees(s, x[2], 180)}

\* C27, as stated: for text that is not a DMS pair and holds two numeric
\* substrings, one a valid latitude and the other a valid longitude in
\* either order, the normalization returns that pair, not (0, 0)
C27_LooseDecimalFallback ==
    (coord.done /\ ~WellFormedPair(coord_str)
         /\ ValidLoosePairs(coord_str) # {}) =>
        \E x \in ValidLoosePairs(coord_str) :
            /\ coord.lat = 3600 * NumberHundredths(coord_str, x[1])
            /\ coord.lng = 3600 * NumberHundredths(coord_str, x[2])


(***************************************************************************)
(* Cache runs: one Drive file that is downloaded again and again, a cache  *)
(* whose entry ages, gets damaged or is cleared                            *)
(***************************************************************************)

\* the hours that pass in one step of these runs, and the age up to which
\* an entry is followed
HoursStep == 12
MaxAge == 36

\* the two contents the Drive file has had
CacheRowsOld == << Row1North >>
CacheRowsNew == << Row1North, Row4Origin >>

\* 新北市/新北市_中和區_公寓_套房_2605.csv with its first content
CacheDriveFile == [RemoteUnreadable EXCEPT !.rows = CacheRowsOld,
                                           !.readable = TRUE]

InitCache ==
    /\ upload = << >>
    /\ drive = [online |-> TRUE, files |-> << CacheDriveFile >>]
    /\ drive_available = TRUE
    /\ csv_index = << >>
    /\ versions = {}
    /\ request = NoRequest
    /\ loaded = << >>
    /\ reconciled = << >>
    /\ response = NoResponse
    /\ prior_loads = NoLoads
    /\ FilenameIdle
    /\ CoordinateIdle
    /\ ScanIdle
    /\ ClockIdle

\* time passes: every entry of the cache is HoursStep hours older
HoursPass ==
    /\ \E e \in cache : e.age < MaxAge
    /\ cache' = {[e EXCEPT !.age = IF @ < MaxAge THEN @ + HoursStep ELSE @] :
                     e \in cache}
    /\ UNCHANGED << upload, csv_index, versions, drive_available, request,
                    loaded, reconciled, response, filename, parts, parsed,
                    coord_str, coord, drive, rescans, scan, snapshot, admin,
                    fetches, clockVars, prior_loads >>

\* the bytes of a cache entry are damaged: pd.read_csv rejects them
DamageEntry ==
    /\ \E e \in cache :
           /\ e.readable
           /\ cache' = (cache \ {e})
                           \cup {[e EXCEPT !.readable = FALSE, !.rows = << >>,
                                           !.blank_lines = 0]}
    /\ UNCHANGED << upload, csv_index, versions, drive_available, request,
                    loaded, reconciled, response, filename, parts, parsed,
                    coord_str, coord, drive, rescans, scan, snapshot, admin,
                    fetches, clockVars, prior_loads >>

\* POST /api/admin/clear-cache (lines 61-69 and 1440-1450): the cache
\* directory, which startup made, is removed and made again
clear_cache_api ==
    /\ cache' = {}
    /\ admin' = [message |-> "cache cleared", indexed_files |-> 0]
    /\ UNCHANGED << upload, csv_index, versions, drive_available, request,
                    loaded, reconciled, response, filename, parts, parsed,
                    coord_str, coord, drive, rescans, scan, snapshot,
                    fetches, clockVars, prior_loads >>

\* the Drive file gets new content, or bytes pd.read_csv rejects
ReviseRemote ==
    /\ \E rows \in {CacheRowsOld, CacheRowsNew}, readable \in BOOLEAN :
           drive' = [drive EXCEPT
                       !.files = << [CacheDriveFile EXCEPT
                                       !.rows = IF readable THEN rows ELSE << >>,
                                       !.readable = readable] >>]
    /\ drive' # drive
    /\ rescans' = 0
    /\ UNCHANGED << upload, csv_index, versions, drive_available, request,
                    loaded, reconciled, response, filename, parts, parsed,
                    coord_str, coord, scan, snapshot, admin, cache, fetches,
                    clockVars, prior_loads >>

NextCache ==
    \/ rescan_csv
    \/ RemoveLocal
    \/ HoursPass
    \/ DamageEntry
    \/ clear_cache_api
    \/ ReviseRemote

SpecCache == InitCache /\ [][NextCache]_vars


(***************************************************************************)
(* Properties of the cache runs                                            *)
(***************************************************************************)

\* the call found an entry younger than the expiry that pd.read_csv accepts
FoundFreshEntry(f) ==
    /\ f.before.present
    /\ f.before.age < CacheExpiryHours
    /\ f.before.readable

\* the call returned the cached copy and made no remote request
ServedCachedCopy(f) ==
    /\ ~f.remote
    /\ f.found
    /\ f.rows = f.before.rows
    /\ f.after = f.before

\* the call made a remote request; the bytes it got replaced the entry, and
\* the call returned them when pd.read_csv accepts them
RefetchedAndStored(f) ==
    /\ f.remote
    /\ f.bytes.present =>
           /\ f.after = f.bytes
           /\ f.bytes.readable => (f.found /\ f.rows = f.bytes.rows)

\* after a scan, the cache holds for every file fetched what the last call
\* for it left there
CacheHoldsWhatCallsLeft ==
    \A k \in 1..Len(fetches') :
        (\A j \in (k + 1)..Len(fetches') :
             fetches'[j].file_id # fetches'[k].file_id) =>
            EntryOf(cache', fetches'[k].file_id) = fetches'[k].after

\* C28: a download is served from the cached copy, with no remote request,
\* exactly when an entry exists, is younger than 24 hours and can be read;
\* with an expired, a missing or an unreadable entry the file is requested
\* from the Drive, the bytes received overwrite the entry, and the call
\* returns them: the miss by itself is no error
C28_CacheServesFreshEntries ==
    /\ [](\A k \in 1..Len(fetches) :
              /\ ServedCachedCopy(fetches[k]) <=> FoundFreshEntry(fetches[k])
              /\ ~FoundFreshEntry(fetches[k]) => RefetchedAndStored(fetches[k]))
    /\ [][rescan_csv => CacheHoldsWhatCallsLeft]_vars

\* a scan has fetched the file over an entry that had expired, and the entry
\* now holds the new content of the Drive file
C28_Witness ==
    /\ Len(fetches) = 1
    /\ fetches[1].before.present
    /\ fetches[1].before.readable
    /\ fetches[1].before.age >= CacheExpiryHours
    /\ fetches[1].remote
    /\ fetches[1].found
    /\ fetches[1].rows # fetches[1].before.rows
    /\ EntryOf(cache, fetches[1].file_id).age = 0
    /\ EntryOf(cache, fetches[1].file_id).rows = fetches[1].rows

\* a scan has been served the cached copy of an entry 12 hours old, while
\* the Drive file holds other content
C28_WitnessHit ==
    /\ Len(fetches) = 1
    /\ ServedCachedCopy(fetches[1])
    /\ fetches[1].before.age = HoursStep
    /\ drive.files[1].rows # fetches[1].rows


(***************************************************************************)
(* Properties of the path runs: where the records of a query come from     *)
(***************************************************************************)

\* the rows of csv_index the SELECT of get_csv_from_drive gives for a query
DriveMatches(q) ==
    SelectSeq(csv_index, LAMBDA d :
        MatchesDriveQuery(d, QueryCity(q), QueryDistrict(q), q.building_type,
                          LoadCategory(q), QueryWeek(q)))

\* the rows of csv_index the SELECT of load_csv_data gives for a query
LocalMatches(q) ==
    SelectSeq(csv_index, LAMBDA d :
        MatchesLocalQuery(d, QueryDistrict(q), q.building_type,
                          LoadCategory(q), QueryWeek(q)))

\* a step that serves a query: the catalog and the upload directory stay
AnalysisStep ==
    /\ request'.served
    /\ rescans' = rescans
    /\ csv_index' = csv_index
    /\ upload' = upload

ReconciliationOf(w) ==
    calculate_property_status(
        load_csv_data(QueryCity(request), QueryDistrict(request),
                      request.building_type, LoadCategory(request), w),
        QueryCity(request), QueryDistrict(request), request.building_type,
        LoadCategory(request), w)

\* the statuses the records of an id carry in a reconciliation
StatusesOf(records, id) ==
    {records[i].status : i \in {j \in 1..Len(records) :
                                    records[j].property_id = id}}

\* the catalog's weeks after w
LaterWeeks(w) == {v \in CatalogWeeks : DecimalValue(v) > DecimalValue(w)}

\* the week that follows w in the catalog (W+1)
FollowingWeek(w) ==
    CHOOSE v \in LaterWeeks(w) :
        \A u \in LaterWeeks(w) : DecimalValue(v) <= DecimalValue(u)

\* the ids of the records tagged 'inactive'
InactiveIds == {InactiveRecords[i].property_id : i \in 1..Len(InactiveRecords)}

\* C30: over one catalog, a listing reported 'inactive' in the reconciliation
\* of week W is reported 'new' or 'active', and nothing else, in the
\* reconciliation of the most recent week before W, and the reconciliation
\* of the week after W has no record of it unless the data of that week
\* hold it again
C30_DisappearanceReportedOnce ==
    \A w \in AllWeeks :
        (ReconciledWithHistory(w) /\ InactiveIds # {}) =>
            /\ \A id \in InactiveIds :
                   /\ StatusesOf(ReconciliationOf(PreviousWeek(w)), id) # {}
                   /\ StatusesOf(ReconciliationOf(PreviousWeek(w)), id)
                          \subseteq {"new", "active"}
            /\ LaterWeeks(w) # {} =>
                   \A id \in InactiveIds \ IdsOfWeek(FollowingWeek(w)) :
                       StatusesOf(ReconciliationOf(FollowingWeek(w)), id) = {}

\* the reconciliation of week 2604 reports a listing 'inactive' that week
\* 2603 held, and the catalog has week 2605 after it, which does not hold it
C30_Witness ==
    /\ ReconciledWithHistory(Week2604)
    /\ PreviousWeek(Week2604) = Week2603
    /\ Week2605 \in CatalogWeeks
    /\ \E id \in InactiveIds : id \notin IdsOfWeek(Week2605)

=============================================================================
